---- MODULE Spec2Model ----
(***************************************************************************)
(* Model of the Slack integration: the SlackService adapter (initialize,   *)
(* testConnection, sendMessage, getUserInfo, getUsers, getChannels and the *)
(* private makeApiCall), the BaseIntegrationClass envelope helpers, the    *)
(* request schemas and the IntegrationRegistry.                            *)
(*                                                                         *)
(* JavaScript runs one continuation at a time: the code between two awaits *)
(* of an external call is one atomic step.  An action is either the start  *)
(* of a call (up to its first external call or its return) or the          *)
(* continuation that runs when an external call settles.                   *)
(***************************************************************************)
EXTENDS Integers, Sequences, FiniteSets, TLC

\* ------------------------------------------------------------------ bounds
NumCallers == 2
Callers == 1..NumCallers

\* ------------------------------------------------------- optional values
None == <<>>
Some(x) == <<x>>
IsSome(o) == o # <<>>
Val(o) == o[1]

\* ------------------------------------------------------------ input sets
\* Strings are drawn from small sets; StrLen gives String.length.
StrLen(s) ==
  CASE s = "" -> 0
    [] s = "hi" -> 2
    [] s = "T4000" -> 4000
    [] s = "T4001" -> 4001
    [] s = "abc" -> 3
    [] s \in {"c1", "c2", "c3", "c4"} -> 2
    [] s = "U1" -> 2
    [] s = "#general" -> 8
    [] OTHER -> 1

\* A JSON value that is not a string (a number, say), as a request body may
\* carry where a string is expected.
JsonNumber == "<number>"
IsString(value) == value # JsonNumber

\* Caller c's own connection id.
ConnName == <<"c1", "c2", "c3", "c4">>
OwnId(c) == ConnName[c]
ConfigInputs == [nangoConnectionId : {"", "c1", "c2"}]
ChannelInputs == {"", "#general"}
TextInputs == {"", "hi", "T4000", "T4001"}
UserIdInputs == {"", "U1"}
CursorInputs == {None, Some("abc")}
LimitInputs == {None, Some(0), Some(1), Some(1000), Some(1001)}

ThreadTsInputs == {None, Some("1700000000.000100"), Some(JsonNumber)}
UsernameInputs == {None, Some("Bot")}

\* thread_ts and username stand for the seven optional fields of the
\* schema; they accompany one channel and text.
SendMessageInputs ==
  { request \in [channel : ChannelInputs, text : TextInputs,
                 thread_ts : ThreadTsInputs, username : UsernameInputs] :
      IsSome(request.thread_ts) \/ IsSome(request.username) =>
        request.channel = "#general" /\ request.text = "hi" }
GetUserInfoInputs == [user : UserIdInputs]
GetUsersInputs == [cursor : CursorInputs, limit : LimitInputs]
GetChannelsInputs == [cursor : CursorInputs, limit : LimitInputs]

\* ------------------------------------------------------------ error codes
AUTHENTICATION_FAILED == "AUTHENTICATION_FAILED"
INSUFFICIENT_PERMISSIONS == "INSUFFICIENT_PERMISSIONS"
API_ERROR == "API_ERROR"
RATE_LIMITED == "RATE_LIMITED"
INVALID_REQUEST == "INVALID_REQUEST"
MISSING_REQUIRED_FIELD == "MISSING_REQUIRED_FIELD"
INVALID_FORMAT == "INVALID_FORMAT"
RESOURCE_NOT_FOUND == "RESOURCE_NOT_FOUND"
SERVICE_UNAVAILABLE == "SERVICE_UNAVAILABLE"

ValidationCodes == {INVALID_REQUEST, MISSING_REQUIRED_FIELD, INVALID_FORMAT}

\* ------------------------------------------------------ provider entities
MaxMembers == 2

SlackUsers ==
  { [id |-> "U1", name |-> "alice", real_name |-> "Alice A", email |-> "a@x.io",
     presence |-> "active", is_bot |-> FALSE,
     profile |-> [display_name |-> "", email |-> ""]],
    [id |-> "U2", name |-> "bot", real_name |-> "", email |-> "",
     presence |-> "away", is_bot |-> TRUE,
     profile |-> [display_name |-> "Bot", email |-> "bot@x.io"]] }

SlackChannels ==
  { [id |-> "C1", name |-> "general", is_im |-> FALSE, is_mpim |-> FALSE,
     is_group |-> FALSE, is_private |-> FALSE],
    [id |-> "G1", name |-> "team", is_im |-> FALSE, is_mpim |-> FALSE,
     is_group |-> TRUE, is_private |-> TRUE] }

SeqsUpTo(S, n) == UNION { [1..k -> S] : k \in 0..n }

\* a || b on strings: the empty string is falsy
OrElse(a, b) == IF a # "" THEN a ELSE b

\* the status derived as offline for presence away, online otherwise
toStandardUser_awayOffline(slackUser) ==
  [ id |-> slackUser.id,
    name |-> OrElse(slackUser.profile.display_name,
                    OrElse(slackUser.real_name, slackUser.name)),
    email |-> OrElse(slackUser.profile.email, slackUser.email),
    status |-> IF slackUser.presence = "away" THEN "offline" ELSE "online",
    isBot |-> slackUser.is_bot ]

toStandardUser(slackUser) ==
  [ id |-> slackUser.id,
    name |-> OrElse(slackUser.profile.display_name,
                    OrElse(slackUser.real_name, slackUser.name)),
    email |-> OrElse(slackUser.profile.email, slackUser.email),
    status |-> IF slackUser.presence = "active" THEN "online" ELSE "offline",
    isBot |-> slackUser.is_bot ]

\* the type derived with is_private tested before the group flags
toStandardChannel_privateFirst(slackChannel) ==
  [ id |-> slackChannel.id,
    name |-> slackChannel.name,
    type |-> IF slackChannel.is_im THEN "direct"
             ELSE IF slackChannel.is_private THEN "private"
             ELSE IF slackChannel.is_mpim \/ slackChannel.is_group THEN "group"
             ELSE "public" ]

toStandardChannel(slackChannel) ==
  [ id |-> slackChannel.id,
    name |-> slackChannel.name,
    type |-> IF slackChannel.is_im THEN "direct"
             ELSE IF slackChannel.is_mpim \/ slackChannel.is_group THEN "group"
             ELSE IF slackChannel.is_private THEN "private"
             ELSE "public" ]

\* The arguments SlackTransformer is applied to directly. An optional
\* string that is undefined is "", an optional flag that is undefined FALSE.
SlackUserInputs ==
  [id : {"U1"}, name : {"alice"}, real_name : {"", "Alice A"}, email : {"", "a@x.io"},
   presence : {"active", "away", ""}, is_bot : BOOLEAN,
   profile : [display_name : {"", "Al"}, email : {""}]]

SlackChannelInputs ==
  [id : {"C1", "D1"}, name : {"general"}, is_im : BOOLEAN, is_mpim : BOOLEAN,
   is_group : BOOLEAN, is_private : BOOLEAN]

\* What toStandardUser reads when it is handed a StandardUser: id, name and
\* email are there; real_name, presence, is_bot and profile are undefined.
ReadAsSlackUser(standardUser) ==
  [id |-> standardUser.id, name |-> standardUser.name, real_name |-> "",
   email |-> standardUser.email, presence |-> "", is_bot |-> FALSE,
   profile |-> [display_name |-> "", email |-> ""]]

NotTransformed ==
  [fn |-> "", channel |-> None, user |-> None, result |-> None, again |-> None]

\* ------------------------------------------------------------- schemas
\* Each schema yields [ok, value, issues]: value has the defaults applied,
\* issues is the list of zod messages.
SelectSeq2(pairs) ==
  LET keep(p) == p[1]
      kept == SelectSeq(pairs, keep)
  IN [i \in 1..Len(kept) |-> kept[i][2]]

\* z.string().min(1, ...): a value of another type fails the type check
\* and the length is not looked at
SlackConfigSchema(config) ==
  LET issues ==
        IF ~IsString(config.nangoConnectionId)
        THEN <<"Expected string, received number">>
        ELSE SelectSeq2(<< <<StrLen(config.nangoConnectionId) < 1,
                             "Nango connection ID is required">> >>)
  IN [ok |-> issues = <<>>, value |-> config, issues |-> issues]

SendMessageSchema(request) ==
  LET issues == SelectSeq2(<< <<StrLen(request.channel) < 1, "Channel is required">>,
                              <<StrLen(request.text) < 1, "Message text is required">>,
                              <<IsSome(request.thread_ts) /\ ~IsString(Val(request.thread_ts)),
                                "Expected string, received number">> >>)
  IN [ok |-> issues = <<>>, value |-> request, issues |-> issues]

GetUserInfoSchema(request) ==
  LET issues == SelectSeq2(<< <<StrLen(request.user) < 1, "User ID is required">> >>)
  IN [ok |-> issues = <<>>, value |-> request, issues |-> issues]

LimitIssues(limit) ==
  IF ~IsSome(limit) THEN <<>>
  ELSE SelectSeq2(<< <<Val(limit) < 1, "Number must be greater than or equal to 1">>,
                     <<Val(limit) > 1000, "Number must be less than or equal to 1000">> >>)

LimitDefault(limit) == IF IsSome(limit) THEN Val(limit) ELSE 100

GetUsersSchema(request) ==
  LET issues == LimitIssues(request.limit)
  IN [ok |-> issues = <<>>,
      value |-> [cursor |-> request.cursor, limit |-> LimitDefault(request.limit)],
      issues |-> issues]

GetChannelsSchema(request) ==
  LET issues == LimitIssues(request.limit)
  IN [ok |-> issues = <<>>,
      value |-> [cursor |-> request.cursor, limit |-> LimitDefault(request.limit),
                 exclude_archived |-> TRUE,
                 types |-> "public_channel,private_channel"],
      issues |-> issues]

\* validateInput handing the value back whatever the schema found
validateInput_lenient(parsed) ==
  [threw |-> FALSE, value |-> Some(parsed.value), message |-> <<>>]

\* IntegrationUtils.validateInput: the parsed value, or an Error carrying
\* the aggregated zod messages.
validateInput(parsed) ==
  IF parsed.ok THEN [threw |-> FALSE, value |-> Some(parsed.value), message |-> <<>>]
  ELSE [threw |-> TRUE, value |-> None,
        message |-> <<"Validation failed">> \o parsed.issues]

\* ------------------------------------------------------------------ state
Shared == 0
Adapters == {Shared}

\* every handler using one adapter instance of the module
RequestAdapter_shared(c) == Shared

\* A POST handler constructs an adapter of its own for the request: the
\* instance caller c's handler constructs is c. The instance is dropped
\* (its config is None again) when the handler answers.
RequestAdapter(c) == c
Instances == Adapters \cup Callers

VARIABLES
  config,        \* SlackService.config of each adapter instance: None or Some(cfg)
  frame,         \* per caller: the suspended call and its local variables
  last,          \* the last observable event: an external call issued or a call returned
  integrations,  \* IntegrationRegistry.integrations: identifier -> instance
  nodeEnv,       \* process.env.NODE_ENV
  retryState,    \* the locals of a running IntegrationUtils.retry call
  transformed,   \* the last SlackTransformer call: its argument and its result
  handler,       \* per caller: the POST handler it is running and its locals
  nangoSecretKey, \* process.env.NANGO_SECRET_KEY
  withRetryState \* the locals of a running RetryManager.withRetry call

vars == <<config, frame, last, integrations, nodeEnv, retryState, transformed,
          handler, nangoSecretKey, withRetryState>>

NoChecks == [authentication |-> FALSE, apiAccess |-> FALSE, permissions |-> FALSE]

\* connectionId is the caller's own connection id while it runs
\* "initialize(connectionId), then an operation" (README, executeSlackAction).
IdleFrame(connectionId) ==
  [pc |-> "idle", svc |-> Shared, op |-> "", ncalls |-> 0, checks |-> NoChecks,
   connectionId |-> connectionId]

\* ------------------------------------------------- envelope and errors
\* createError attaching the stack whatever NODE_ENV is
createError_stack(code, message, details) ==
  [ code |-> code, message |-> message, details |-> details,
    stack |-> Some("Error.stack") ]

\* BaseIntegrationClass.createError
createError(code, message, details) ==
  [ code |-> code,
    message |-> message,
    details |-> details,
    stack |-> IF nodeEnv = "development" THEN Some("Error.stack") ELSE None ]

\* createResponse with the success flag inverted (!!error for !error)
createResponse_flag(data, error) ==
  [ success |-> IsSome(error),
    data |-> IF IsSome(error) THEN None ELSE data,
    error |-> error ]

\* BaseIntegrationClass.createResponse
createResponse(data, error) ==
  [ success |-> ~IsSome(error),
    data |-> IF IsSome(error) THEN None ELSE data,
    error |-> error ]

\* What a call hands back to its caller.
ReturnValue(envelope) ==
  [raised |-> FALSE, message |-> <<>>, envelope |-> Some(envelope), health |-> None]

ReturnHealth(health) ==
  [raised |-> FALSE, message |-> <<>>, envelope |-> None, health |-> Some(health)]

Throw(message) ==
  [raised |-> TRUE, message |-> message, envelope |-> None, health |-> None]

\* ------------------------------------------------------ provider outcomes
BaseResponse ==
  [ok |-> TRUE, error |-> "", ts |-> "", user |-> None, members |-> None,
   channels |-> None, next_cursor |-> None]

Resolve(body) == [kind |-> "resolve", body |-> body, status |-> None, message |-> ""]
Reject(status, message) ==
  [kind |-> "reject", body |-> None, status |-> status, message |-> message]

Rejections ==
  { Reject(Some(st), "Request failed") : st \in {401, 403, 429, 500} }
    \cup { Reject(None, "Network Error") }

\* response.data may be missing altogether
UndefinedBody == Resolve(None)

AuthOutcomes ==
  { Resolve(Some(BaseResponse)),
    Resolve(Some([BaseResponse EXCEPT !.ok = FALSE, !.error = "invalid_auth"])),
    UndefinedBody } \cup Rejections

PermissionOutcomes ==
  { Resolve(Some([BaseResponse EXCEPT !.channels = Some(<<>>)])),
    Resolve(Some([BaseResponse EXCEPT !.ok = FALSE, !.error = "missing_scope"])) }
    \cup Rejections

SendErrors ==
  {"not_in_channel", "channel_not_found", "access_denied", "account_inactive",
   "token_expired", "restricted_action", "msg_too_long", ""}

SendOutcomes ==
  { Resolve(Some([BaseResponse EXCEPT !.ts = t])) : t \in {"1234567890.123456", ""} }
    \cup { Resolve(Some([BaseResponse EXCEPT !.ok = FALSE, !.error = e])) : e \in SendErrors }
    \cup { UndefinedBody } \cup Rejections

UserInfoOutcomes ==
  { Resolve(Some([BaseResponse EXCEPT !.user = Some(u)])) : u \in SlackUsers }
    \cup { Resolve(Some(BaseResponse)),
           Resolve(Some([BaseResponse EXCEPT !.ok = FALSE, !.error = "user_not_found"])),
           UndefinedBody }
    \cup { Resolve(Some([BaseResponse EXCEPT !.ok = FALSE, !.error = "user_not_found",
                                              !.user = Some(u)])) : u \in SlackUsers }
    \cup Rejections

NextCursors == {None, Some("abc"), Some("")}

UsersOutcomes ==
  { Resolve(Some([BaseResponse EXCEPT !.members = Some(m), !.next_cursor = nc])) :
      m \in SeqsUpTo(SlackUsers, MaxMembers), nc \in NextCursors }
    \cup { Resolve(Some(BaseResponse)),
           Resolve(Some([BaseResponse EXCEPT !.ok = FALSE, !.error = "invalid_cursor"])),
           UndefinedBody }
    \cup Rejections

ChannelsOutcomes ==
  { Resolve(Some([BaseResponse EXCEPT !.channels = Some(m), !.next_cursor = nc])) :
      m \in SeqsUpTo(SlackChannels, MaxMembers), nc \in NextCursors }
    \cup { Resolve(Some(BaseResponse)),
           Resolve(Some([BaseResponse EXCEPT !.ok = FALSE, !.error = "invalid_cursor"])),
           UndefinedBody }
    \cup Rejections

\* ------------------------------------------------------------ makeApiCall
\* The catch of makeApiCall: the Error it throws for a rejected proxy call.
makeApiCallCatch(error) ==
  IF error.status = Some(401) THEN <<"Authentication failed - token may be expired">>
  ELSE IF error.status = Some(403) THEN <<"Insufficient permissions">>
  ELSE IF error.status = Some(429) THEN <<"Rate limit exceeded">>
  ELSE <<"API call failed", error.message>>

\* What makeApiCall gives its caller once nango.proxy settles: response.data,
\* or the classified Error.
makeApiCallSettle(outcome) ==
  IF outcome.kind = "resolve"
  THEN [threw |-> FALSE, data |-> outcome.body, message |-> <<>>]
  ELSE [threw |-> TRUE, data |-> None, message |-> makeApiCallCatch(outcome)]

\* The request makeApiCall hands to nango.proxy.
ProxyCall(cfg, endpoint, data) ==
  [via |-> "proxy", endpoint |-> endpoint, method |-> "POST", data |-> data,
   connectionId |-> cfg.nangoConnectionId, providerConfigKey |-> "slack"]

\* Reading a property of an undefined response body
TypeErrorMessage == <<"Cannot read properties of undefined">>

\* A segment of code ends either by issuing an external call (and
\* suspending at pc) or by handing a result to the caller.
Suspend(pc, call, checks) ==
  [pc |-> pc, call |-> Some(call), out |-> None, checks |-> checks]

Finish(out) ==
  [pc |-> "idle", call |-> None, out |-> Some(out), checks |-> NoChecks]

\* makeApiCall without the guard on this.config
makeApiCall_unguarded(cfg, endpoint, data) ==
  [threw |-> FALSE, message |-> <<>>,
   call |-> Some(ProxyCall([nangoConnectionId |->
                              IF IsSome(cfg) THEN Val(cfg).nangoConnectionId ELSE ""],
                           endpoint, data))]

\* makeApiCall up to nango.proxy: throws when the adapter has no config,
\* otherwise issues the proxy request.
makeApiCall(cfg, endpoint, data) ==
  IF ~IsSome(cfg)
  THEN [threw |-> TRUE, message |-> <<"Integration not initialized">>, call |-> None]
  ELSE [threw |-> FALSE, message |-> <<>>,
        call |-> Some(ProxyCall(Val(cfg), endpoint, data))]

\* ---------------------------------------------------------- testConnection
\* the status derived from authentication alone
HealthStatus_authOnly(checks) ==
  IF checks.authentication THEN "healthy" ELSE "unhealthy"

\* The status expression of testConnection's normal return.
HealthStatus(checks) ==
  IF checks.authentication /\ checks.apiAccess /\ checks.permissions THEN "healthy"
  ELSE IF checks.authentication THEN "degraded"
  ELSE "unhealthy"

\* testConnection's normal return
testConnectionReturn(cfg, checks) ==
  ReturnHealth([ status |-> HealthStatus(checks),
                 checks |-> checks,
                 details |-> [connectionId |-> Some(Val(cfg).nangoConnectionId),
                              error |-> <<>>] ])

\* testConnection without its outer catch: the error reaches the caller
testConnectionCatch_rethrow(checks, message) == Throw(message)

\* testConnection's outer catch
testConnectionCatch(checks, message) ==
  ReturnHealth([ status |-> "unhealthy",
                 checks |-> checks,
                 details |-> [connectionId |-> None, error |-> message] ])

\* testConnection's inner catch (permError): logged, permissions stays false
permissionCatch(checks, message) == checks

\* testConnection from its entry to the first await
testConnectionStart(cfg) ==
  IF ~IsSome(cfg)
  THEN Finish(testConnectionCatch(NoChecks, <<"Integration not initialized">>))
  ELSE LET m == makeApiCall(cfg, "/auth.test", None) IN
       IF m.threw THEN Finish(testConnectionCatch(NoChecks, m.message))
       ELSE Suspend("auth", Val(m.call), NoChecks)

\* testConnection once '/auth.test' settles
testConnectionAuth(cfg, outcome) ==
  LET r == makeApiCallSettle(outcome) IN
  IF r.threw THEN Finish(testConnectionCatch(NoChecks, r.message))
  ELSE IF ~IsSome(r.data) THEN Finish(testConnectionCatch(NoChecks, TypeErrorMessage))
  ELSE IF Val(r.data).ok
  THEN LET checks == [NoChecks EXCEPT !.authentication = TRUE, !.apiAccess = TRUE]
            m == makeApiCall(cfg, "/conversations.list", Some([limit |-> 1]))
       IN IF m.threw
          THEN Finish(testConnectionReturn(cfg, permissionCatch(checks, m.message)))
          ELSE Suspend("permissions", Val(m.call), checks)
  ELSE Finish(testConnectionReturn(cfg, NoChecks))

\* permissions taken from the ok flag of the '/conversations.list' response
testConnectionPermissions_okFlag(cfg, checks, outcome) ==
  LET r == makeApiCallSettle(outcome) IN
  IF r.threw \/ ~IsSome(r.data)
  THEN Finish(testConnectionReturn(cfg, permissionCatch(checks, r.message)))
  ELSE Finish(testConnectionReturn(cfg, [checks EXCEPT !.permissions = Val(r.data).ok]))

\* testConnection once '/conversations.list' settles
testConnectionPermissions(cfg, checks, outcome) ==
  LET r == makeApiCallSettle(outcome) IN
  IF r.threw THEN Finish(testConnectionReturn(cfg, permissionCatch(checks, r.message)))
  ELSE Finish(testConnectionReturn(cfg, [checks EXCEPT !.permissions = TRUE]))

\* ---------------------------------------------------------------- initialize
\* initialize once the awaited testConnection has settled; probe is what
\* testConnection handed back (the code discards the value).
initializeSettle(probe) ==
  IF probe.raised
  THEN Throw(<<"Failed to initialize Slack integration">> \o probe.message)
  ELSE [raised |-> FALSE, message |-> <<>>, envelope |-> None, health |-> probe.health]

\* initialize's catch for a config that fails validation
initializeInvalid(message) ==
  Throw(<<"Failed to initialize Slack integration">> \o message)

\* --------------------------------------------------------------- sendMessage
\* sendMessage's catch
sendMessageCatch(message) ==
  ReturnValue(createResponse(None,
    Some(createError(API_ERROR, <<"Failed to send message">> \o message, None))))

\* the switch reduced to its default branch
Suggestions_generic(error) ==
  "Please check the channel ID and ensure you have access to post messages."

\* the switch on response.error
Suggestions(error) ==
  CASE error = "not_in_channel" ->
         "You are not a member of this channel. Please join the channel first."
    [] error = "channel_not_found" ->
         "The specified channel does not exist or you do not have access to it."
    [] error = "access_denied" ->
         "You do not have permission to post messages to this channel. Check your channel permissions."
    [] error = "account_inactive" ->
         "Your Slack account or workspace is inactive."
    [] error = "token_expired" ->
         "Your authentication token has expired. Please reconnect the integration."
    [] error = "restricted_action" ->
         "Message posting is restricted in this channel. Contact your workspace admin."
    [] OTHER ->
         "Please check the channel ID and ensure you have access to post messages."

\* the request with the validated thread_ts forwarded
TriggerActionCall_thread(cfg, validatedRequest) ==
  [via |-> "triggerAction", endpoint |-> "send-message", method |-> "",
   data |-> Some([channel |-> validatedRequest.channel, text |-> validatedRequest.text,
                  thread_ts |-> validatedRequest.thread_ts]),
   connectionId |-> cfg.nangoConnectionId, providerConfigKey |-> "slack"]

\* the request sendMessage hands to nango.triggerAction
TriggerActionCall(cfg, validatedRequest) ==
  [via |-> "triggerAction", endpoint |-> "send-message", method |-> "",
   data |-> Some([channel |-> validatedRequest.channel, text |-> validatedRequest.text]),
   connectionId |-> cfg.nangoConnectionId, providerConfigKey |-> "slack"]

\* sendMessage from its entry to the await of triggerAction
sendMessageStart(cfg, request) ==
  LET v == validateInput(SendMessageSchema(request)) IN
  IF v.threw THEN Finish(sendMessageCatch(v.message))
  ELSE IF ~IsSome(cfg) THEN Finish(sendMessageCatch(<<"Integration not initialized">>))
  ELSE Suspend("send", TriggerActionCall(Val(cfg), Val(v.value)), NoChecks)

\* the success data with the message id left empty
sendMessageData_noId(response) ==
  [messageId |-> "", timestamp |-> OrElse(response.ts, "")]

\* the data of sendMessage's success return (response.ts || '')
sendMessageData(response) ==
  [messageId |-> OrElse(response.ts, ""), timestamp |-> OrElse(response.ts, "")]

\* sendMessage once triggerAction settles
sendMessageSettle(outcome) ==
  IF outcome.kind = "reject" THEN Finish(sendMessageCatch(<<outcome.message>>))
  ELSE IF ~IsSome(outcome.body) THEN Finish(sendMessageCatch(TypeErrorMessage))
  ELSE LET response == Val(outcome.body) IN
    IF ~response.ok
    THEN LET suggestions == Suggestions(response.error) IN
         Finish(ReturnValue(createResponse(None,
           Some(createError(API_ERROR,
                  <<"Failed to send message", OrElse(response.error, "Unknown error"),
                    suggestions>>,
                  Some([slackError |-> response.error, suggestions |-> suggestions,
                        errorType |-> response.error]))))))
    ELSE Finish(ReturnValue(createResponse(Some(sendMessageData(response)), None)))

\* --------------------------------------------------------------- getUserInfo
\* getUserInfo's catch
getUserInfoCatch(message) ==
  ReturnValue(createResponse(None,
    Some(createError(API_ERROR, <<"Failed to get user info">> \o message, None))))

getUserInfoStart(cfg, request) ==
  LET v == validateInput(GetUserInfoSchema(request)) IN
  IF v.threw THEN Finish(getUserInfoCatch(v.message))
  ELSE LET m == makeApiCall(cfg, "/users.info", v.value) IN
       IF m.threw THEN Finish(getUserInfoCatch(m.message))
       ELSE Suspend("users.info", Val(m.call), NoChecks)

\* getUserInfo testing response.ok only: a missing user reaches the
\* transformer, whose TypeError lands in the catch
getUserInfoSettle_okOnly(outcome) ==
  LET r == makeApiCallSettle(outcome) IN
  IF r.threw THEN Finish(getUserInfoCatch(r.message))
  ELSE IF ~IsSome(r.data) THEN Finish(getUserInfoCatch(TypeErrorMessage))
  ELSE LET response == Val(r.data) IN
    IF ~response.ok
    THEN Finish(ReturnValue(createResponse(None,
           Some(createError(RESOURCE_NOT_FOUND, <<"User not found", response.error>>,
                            Some([slackError |-> response.error]))))))
    ELSE IF ~IsSome(response.user) THEN Finish(getUserInfoCatch(TypeErrorMessage))
    ELSE Finish(ReturnValue(createResponse(
           Some(toStandardUser(Val(response.user))), None)))

\* getUserInfo once '/users.info' settles
getUserInfoSettle(outcome) ==
  LET r == makeApiCallSettle(outcome) IN
  IF r.threw THEN Finish(getUserInfoCatch(r.message))
  ELSE IF ~IsSome(r.data) THEN Finish(getUserInfoCatch(TypeErrorMessage))
  ELSE LET response == Val(r.data) IN
    IF ~response.ok \/ ~IsSome(response.user)
    THEN Finish(ReturnValue(createResponse(None,
           Some(createError(RESOURCE_NOT_FOUND, <<"User not found", response.error>>,
                            Some([slackError |-> response.error]))))))
    ELSE Finish(ReturnValue(createResponse(
           Some(toStandardUser(Val(response.user))), None)))

\* ------------------------------------------------------------------ getUsers
\* getUsers without its catch: the error reaches the caller
getUsersCatch_rethrow(message) == Throw(message)

\* getUsers' catch
getUsersCatch(message) ==
  ReturnValue(createResponse(None,
    Some(createError(API_ERROR, <<"Failed to fetch users">> \o message, None))))

\* the success data with the page cursor left out
getUsersData_noCursor(response) ==
  [users |-> [i \in 1..Len(Val(response.members)) |->
                toStandardUser(Val(response.members)[i])],
   nextCursor |-> None]

\* the data of getUsers' success return: members.map(toStandardUser) and
\* response_metadata?.next_cursor
getUsersData(response) ==
  [users |-> [i \in 1..Len(Val(response.members)) |->
                toStandardUser(Val(response.members)[i])],
   nextCursor |-> response.next_cursor]

getUsersStart(cfg, request) ==
  LET v == validateInput(GetUsersSchema(request)) IN
  IF v.threw THEN Finish(getUsersCatch(v.message))
  ELSE LET m == makeApiCall(cfg, "/users.list", v.value) IN
       IF m.threw THEN Finish(getUsersCatch(m.message))
       ELSE Suspend("users.list", Val(m.call), NoChecks)

\* getUsers issuing '/users.list' once more when the proxy call throws
getUsersSettle_retry(outcome) ==
  LET r == makeApiCallSettle(outcome) IN
  IF r.threw
  THEN Suspend("users.list",
               ProxyCall([nangoConnectionId |-> "c1"], "/users.list", None), NoChecks)
  ELSE IF ~IsSome(r.data) THEN Finish(getUsersCatch(TypeErrorMessage))
  ELSE LET response == Val(r.data) IN
    IF ~response.ok \/ ~IsSome(response.members)
    THEN Finish(ReturnValue(createResponse(None,
           Some(createError(API_ERROR, <<"Failed to fetch users", response.error>>,
                            Some([slackError |-> response.error]))))))
    ELSE Finish(ReturnValue(createResponse(Some(getUsersData(response)), None)))

\* getUsers once '/users.list' settles
getUsersSettle(outcome) ==
  LET r == makeApiCallSettle(outcome) IN
  IF r.threw THEN Finish(getUsersCatch(r.message))
  ELSE IF ~IsSome(r.data) THEN Finish(getUsersCatch(TypeErrorMessage))
  ELSE LET response == Val(r.data) IN
    IF ~response.ok \/ ~IsSome(response.members)
    THEN Finish(ReturnValue(createResponse(None,
           Some(createError(API_ERROR, <<"Failed to fetch users", response.error>>,
                            Some([slackError |-> response.error]))))))
    ELSE Finish(ReturnValue(createResponse(Some(getUsersData(response)), None)))

\* --------------------------------------------------------------- getChannels
\* getChannels' catch
getChannelsCatch(message) ==
  ReturnValue(createResponse(None,
    Some(createError(API_ERROR, <<"Failed to fetch channels">> \o message, None))))

\* the data of getChannels' success return
getChannelsData(response) ==
  [channels |-> [i \in 1..Len(Val(response.channels)) |->
                   toStandardChannel(Val(response.channels)[i])],
   nextCursor |-> response.next_cursor]

getChannelsStart(cfg, request) ==
  LET v == validateInput(GetChannelsSchema(request)) IN
  IF v.threw THEN Finish(getChannelsCatch(v.message))
  ELSE LET m == makeApiCall(cfg, "/conversations.list", v.value) IN
       IF m.threw THEN Finish(getChannelsCatch(m.message))
       ELSE Suspend("conversations.list", Val(m.call), NoChecks)

getChannelsSettle(outcome) ==
  LET r == makeApiCallSettle(outcome) IN
  IF r.threw THEN Finish(getChannelsCatch(r.message))
  ELSE IF ~IsSome(r.data) THEN Finish(getChannelsCatch(TypeErrorMessage))
  ELSE LET response == Val(r.data) IN
    IF ~response.ok \/ ~IsSome(response.channels)
    THEN Finish(ReturnValue(createResponse(None,
           Some(createError(API_ERROR, <<"Failed to fetch channels", response.error>>,
                            Some([slackError |-> response.error]))))))
    ELSE Finish(ReturnValue(createResponse(Some(getChannelsData(response)), None)))

\* ------------------------------------------------------ IntegrationRegistry
IntegrationIds == {"slack", "github", "teams"}

\* Adapter objects: id is BaseIntegration.id, ref tells two objects apart.
Integrations == [id : {"slack", "github"}, ref : {1, 2}]

\* register without the has() check: a silent overwrite
register_overwrite(map, integration) ==
  [threw |-> FALSE, map |-> [map EXCEPT ![integration.id] = Some(integration)]]

\* IntegrationRegistry.register
register(map, integration) ==
  IF IsSome(map[integration.id])
  THEN [threw |-> TRUE, map |-> map]
  ELSE [threw |-> FALSE, map |-> [map EXCEPT ![integration.id] = Some(integration)]]

\* IntegrationRegistry.get
get(map, id) == map[id]

\* IntegrationRegistry.has
has(map, id) == IsSome(map[id])

\* unregister that reports a removal whatever the map held
unregister_alwaysTrue(map, id) ==
  [result |-> TRUE, map |-> [map EXCEPT ![id] = None]]

\* IntegrationRegistry.unregister (Map.delete)
unregister(map, id) ==
  [result |-> IsSome(map[id]), map |-> [map EXCEPT ![id] = None]]

\* the factory handing back the adapter without registering it
createSlackIntegration_unregistered(map, ref) ==
  [threw |-> FALSE, map |-> map, slackService |-> Some([id |-> "slack", ref |-> ref])]

\* createSlackIntegration: a new SlackService (object ref), registered with
\* the registry singleton; register's Error propagates
createSlackIntegration(map, ref) ==
  LET slackService == [id |-> "slack", ref |-> ref]
      r == register(map, slackService)
  IN [threw |-> r.threw, map |-> r.map,
      slackService |-> IF r.threw THEN None ELSE Some(slackService)]

\* new DevHelper(): initializeServices creates the Slack integration when
\* NANGO_SECRET_KEY is set
initializeServices(map, secretKey, ref) ==
  IF IsSome(secretKey) /\ Val(secretKey) # ""
  THEN createSlackIntegration(map, ref)
  ELSE [threw |-> FALSE, map |-> map, slackService |-> None]

\* the objects `new SlackService` can yield: any but the one registered
NewRefs(map) ==
  {1, 2} \ (IF IsSome(map["slack"]) THEN {Val(map["slack"]).ref} ELSE {})

\* -------------------------------------------------- IntegrationUtils.retry
MaxAttempts == 3

\* options, after the defaults are applied; maxAttempts 0 runs no attempt
RetryOptions ==
  [maxAttempts : 0..MaxAttempts, baseDelay : {1000, 4000},
   maxDelay : {10000, 500}, backoffFactor : {1, 2, 3}]

\* how one invocation of fn settles
FnOutcomes == {"resolve", "reject"}

RECURSIVE Pow(_, _)
\* Math.pow on non-negative integers
Pow(b, e) == IF e = 0 THEN 1 ELSE b * Pow(b, e - 1)

\* Math.min
Min(a, b) == IF a <= b THEN a ELSE b

\* the delay without the Math.min against maxDelay
retryDelay_uncapped(options, attempt) ==
  options.baseDelay * Pow(options.backoffFactor, attempt - 1)

\* the delay slept after failed attempt `attempt`
retryDelay(options, attempt) ==
  Min(options.baseDelay * Pow(options.backoffFactor, attempt - 1), options.maxDelay)

\* pc: "idle", "fn" (awaiting fn), "delay" (awaiting delay), "returned",
\* "thrown"; lastError: the attempt whose error it is; log: how each
\* invocation of fn settled; sleeps: the delays slept so far; value: the
\* attempt whose result was returned.
RetryIdle ==
  [pc |-> "idle", options |-> [maxAttempts |-> 0, baseDelay |-> 0, maxDelay |-> 0,
                               backoffFactor |-> 0],
   attempt |-> 0, lastError |-> None, log |-> <<>>, sleeps |-> <<>>, thrown |-> None,
   value |-> None]

\* the loop test written attempt < maxAttempts
retryLoop_offByOne(r) ==
  IF r.attempt < r.options.maxAttempts
  THEN [r EXCEPT !.pc = "fn"]
  ELSE [r EXCEPT !.pc = "thrown", !.thrown = r.lastError]

\* the head of the for loop: invoke fn, or fall through to `throw lastError`
retryLoop(r) ==
  IF r.attempt <= r.options.maxAttempts
  THEN [r EXCEPT !.pc = "fn"]
  ELSE [r EXCEPT !.pc = "thrown", !.thrown = r.lastError]

\* retry from its entry to the first await
retryStart(options) ==
  retryLoop([RetryIdle EXCEPT !.options = options, !.attempt = 1])

\* the catch block: remember the error, break after the last attempt,
\* otherwise start the delay
retryCatch(r) ==
  LET caught == [r EXCEPT !.lastError = Some(r.attempt), !.log = Append(r.log, "reject")]
  IN IF r.attempt = r.options.maxAttempts
     THEN [caught EXCEPT !.pc = "thrown", !.thrown = caught.lastError]
     ELSE [caught EXCEPT !.pc = "delay",
                         !.sleeps = Append(r.sleeps, retryDelay(r.options, r.attempt))]

\* retry once the awaited fn settles
retrySettle(r, outcome) ==
  IF outcome = "resolve"
  THEN [r EXCEPT !.pc = "returned", !.log = Append(r.log, "resolve"),
                 !.value = Some(r.attempt)]
  ELSE retryCatch(r)

\* retry once the awaited delay is over: attempt++ and the loop test
retryWake(r) == retryLoop([r EXCEPT !.attempt = r.attempt + 1])

\* ---------------------------------------------------- RetryManager.withRetry
\* what fn rejects with: error.error.code, when there is one
FnErrors ==
  [code : {None, Some(RATE_LIMITED), Some(SERVICE_UNAVAILABLE), Some(API_ERROR),
           Some(AUTHENTICATION_FAILED)}]

\* SlackErrorHandler.getErrorCode
getErrorCode(error) == IF IsSome(error.code) THEN Val(error.code) ELSE "UNKNOWN_ERROR"

\* SlackErrorHandler.shouldRetry, invoked as a method of the class
shouldRetry(error) ==
  getErrorCode(error) \in {RATE_LIMITED, SERVICE_UNAVAILABLE, API_ERROR}

\* The shouldRetry option: "default" is the option left out, the others are
\* functions the caller passes.
ShouldRetryOptions == {"default", "always", "never", "rateLimited"}

\* options, after the defaults are applied
WithRetryOptions ==
  [maxAttempts : 0..MaxAttempts, baseDelay : {1000}, maxDelay : {10000, 1500},
   backoffFactor : {2}, shouldRetry : ShouldRetryOptions]

\* The call shouldRetry(error) in withRetry's catch. The default is the
\* static method SlackErrorHandler.shouldRetry read off the class and called
\* as a plain function: its `this` is undefined, so `this.getErrorCode`
\* throws a TypeError.
shouldRetryCall(option, error) ==
  CASE option = "default" -> [threw |-> TRUE, result |-> FALSE]
    [] option = "always" -> [threw |-> FALSE, result |-> TRUE]
    [] option = "never" -> [threw |-> FALSE, result |-> FALSE]
    [] OTHER -> [threw |-> FALSE, result |-> getErrorCode(error) = RATE_LIMITED]

\* pc, attempt, lastError, log, sleeps, thrown, value as in retry; errors:
\* what each failed invocation rejected with; typeError: the call threw the
\* TypeError of the shouldRetry call instead of lastError.
WithRetryIdle ==
  [pc |-> "idle", options |-> [maxAttempts |-> 0, baseDelay |-> 0, maxDelay |-> 0,
                               backoffFactor |-> 0, shouldRetry |-> "default"],
   attempt |-> 0, lastError |-> None, log |-> <<>>, sleeps |-> <<>>, thrown |-> None,
   value |-> None, errors |-> <<>>, typeError |-> FALSE]

\* the head of withRetry's for loop
withRetryLoop(r) ==
  IF r.attempt <= r.options.maxAttempts
  THEN [r EXCEPT !.pc = "fn"]
  ELSE [r EXCEPT !.pc = "thrown", !.thrown = r.lastError]

\* withRetry from its entry to the first await
withRetryStart(options) ==
  withRetryLoop([WithRetryIdle EXCEPT !.options = options, !.attempt = 1])

\* the delay withRetry sleeps after failed attempt `attempt`
withRetryDelay(options, attempt) ==
  Min(options.baseDelay * Pow(options.backoffFactor, attempt - 1), options.maxDelay)

\* withRetry's catch block
withRetryCatch(r, error) ==
  LET caught == [r EXCEPT !.lastError = Some(r.attempt), !.log = Append(r.log, "reject"),
                          !.errors = Append(r.errors, error)]
  IN IF r.attempt = r.options.maxAttempts
     THEN [caught EXCEPT !.pc = "thrown", !.thrown = caught.lastError]
     ELSE LET retry == shouldRetryCall(r.options.shouldRetry, error) IN
          IF retry.threw
          THEN [caught EXCEPT !.pc = "thrown", !.typeError = TRUE]
          ELSE IF ~retry.result
          THEN [caught EXCEPT !.pc = "thrown", !.thrown = caught.lastError]
          ELSE [caught EXCEPT !.pc = "delay",
                              !.sleeps = Append(r.sleeps,
                                                withRetryDelay(r.options, r.attempt))]

\* withRetry once the awaited fn settles: outcome is None when fn resolved,
\* Some(error) when it rejected
withRetrySettle(r, outcome) ==
  IF ~IsSome(outcome)
  THEN [r EXCEPT !.pc = "returned", !.log = Append(r.log, "resolve"),
                 !.value = Some(r.attempt)]
  ELSE withRetryCatch(r, Val(outcome))

\* withRetry once the awaited timer fires
withRetryWake(r) == withRetryLoop([r EXCEPT !.attempt = r.attempt + 1])

\* ------------------------------------------------------------ POST handlers
Routes == {"users", "channels", "user-info", "health"}

\* The request body: parses is false when request.json() throws or the body
\* cannot be destructured; a field that is absent is None.
Bodies ==
  [parses : BOOLEAN,
   nangoConnectionId :
     {None, Some(""), Some(JsonNumber)} \cup { Some(OwnId(c)) : c \in Callers },
   user : {None, Some("U1")}, limit : {None, Some(0)}]

\* The bodies caller c sends to a route: the connection id, when there is
\* one, is the caller's own; the fields the route does not read are left
\* out, and a body that does not parse has no fields.
BodiesOf(c, route) ==
  { body \in Bodies :
      /\ body.nangoConnectionId \in {None, Some(""), Some(JsonNumber), Some(OwnId(c))}
      /\ ~body.parses =>
           body.nangoConnectionId = None /\ body.user = None /\ body.limit = None
      /\ route \notin {"users", "channels"} => body.limit = None
      /\ route # "user-info" => body.user = None }

\* the handler's locals while it awaits the adapter
NoHandler == [pc |-> "idle", route |-> "", nangoConnectionId |-> "", request |-> None]

\* !field
Missing(field) == ~IsSome(field) \/ Val(field) = ""

\* a connection id check that is never taken
MissingConnectionId_never(body) == FALSE

\* !nangoConnectionId
MissingConnectionId(body) == Missing(body.nangoConnectionId)

\* What NextResponse.json sends: the status and the serialized body.
NextResponseJson(status, body) == [status |-> status, body |-> body]

\* the 400 answer for a missing field
postMissing(message) ==
  NextResponseJson(400, [success |-> FALSE, data |-> None,
                 error |-> Some([code |-> MISSING_REQUIRED_FIELD, message |-> <<message>>,
                                 details |-> None, stack |-> None])])

\* a catch that answers 500 without an error object
postCatch_bare(route, message) ==
  NextResponseJson(500, [success |-> FALSE, data |-> None, error |-> None])

\* the handler's catch
postCatch(route, message) ==
  NextResponseJson(500, [success |-> FALSE, data |-> None,
                 error |-> Some([code |-> API_ERROR,
                                 message |-> IF route = "health"
                                             THEN <<"Health check failed">>
                                             ELSE <<"Internal server error">>,
                                 details |-> Some([error |-> IF nodeEnv = "development"
                                                             THEN Some(message) ELSE None]),
                                 stack |-> None])])

\* the status without the 404 branch
postStatus_no404(route, code) ==
  IF code = AUTHENTICATION_FAILED THEN 401 ELSE 400

\* the status a failed envelope is answered with
postStatus(route, code) ==
  IF code = AUTHENTICATION_FAILED THEN 401
  ELSE IF route = "user-info" /\ code = RESOURCE_NOT_FOUND THEN 404
  ELSE 400

\* the answer once the adapter call has returned
postResult(route, out) ==
  IF out.raised THEN postCatch(route, out.message)
  ELSE IF route = "health"
  THEN NextResponseJson(200, [success |-> TRUE, data |-> out.health, error |-> None])
  ELSE LET result == Val(out.envelope) IN
       IF ~result.success
       THEN NextResponseJson(postStatus(route, Val(result.error).code), result)
       ELSE NextResponseJson(200, result)

\* the request the handler passes to the adapter operation
postRequest(route, body) ==
  CASE route \in {"users", "channels"} -> Some([cursor |-> None, limit |-> body.limit])
    [] route = "user-info" -> Some([user |-> Val(body.user)])
    [] OTHER -> None

\* The handler from its entry to `await slackService.initialize`: the
\* answer it returns at once, or None when it goes on to the adapter.
postStart(route, body, secret) ==
  IF ~body.parses THEN Some(postCatch(route, <<"Unexpected token">>))
  ELSE IF MissingConnectionId(body) THEN Some(postMissing("nangoConnectionId is required"))
  ELSE IF route = "user-info" /\ Missing(body.user)
  THEN Some(postMissing("user ID is required"))
  ELSE IF ~IsSome(secret)
  THEN Some(postCatch(route, <<"NANGO_SECRET_KEY environment variable is required">>))
  ELSE None

\* the answer of POST /connect with a body that parses
connectResult ==
  NextResponseJson(200, [success |-> TRUE,
                         data |-> Some([message |->
                                          "OAuth callback received (not fully implemented)"]),
                         error |-> None])

\* the catch of POST /connect
connectCatch(message) ==
  NextResponseJson(500, [success |-> FALSE, data |-> None,
                 error |-> Some([code |-> API_ERROR,
                                 message |-> <<"OAuth callback failed">>,
                                 details |-> Some([error |-> IF nodeEnv = "development"
                                                             THEN Some(message) ELSE None]),
                                 stack |-> None])])

\* the adapter operation of a route
postOperation(route) ==
  CASE route = "users" -> "getUsers"
    [] route = "channels" -> "getChannels"
    [] route = "user-info" -> "getUserInfo"
    [] OTHER -> "testConnection"

\* the operation's code from its entry to its first await
postOperationStart(route, cfg, request) ==
  CASE route = "users" -> getUsersStart(cfg, Val(request))
    [] route = "channels" -> getChannelsStart(cfg, Val(request))
    [] route = "user-info" -> getUserInfoStart(cfg, Val(request))
    [] OTHER -> testConnectionStart(cfg)

\* ------------------------------------------------------------------- events
NoReg == [id |-> "", integration |-> None, threw |-> FALSE, result |-> FALSE,
          found |-> None]

\* kind: "call" (an external call was issued) or "return" (a call handed its
\* result back); at: the await the code resumed from ("idle" at a call's
\* entry); outcome: how that await settled; request: the call's argument;
\* ncalls: the external calls the invocation has issued so far.
Event(kind, c, a, op, at, outcome, call, out, ncalls, request, reg) ==
  [kind |-> kind, caller |-> c, svc |-> a, op |-> op, at |-> at, outcome |-> outcome,
   call |-> call, out |-> out, ncalls |-> ncalls, request |-> request, reg |-> reg]

RegistryEvent(op, reg) ==
  Event("return", 0, Shared, op, "idle", None, None, None, 0, None, reg)

NoEvent == Event("none", 0, Shared, "", "idle", None, None, None, 0, None, NoReg)

Init ==
  /\ config = [a \in Instances |-> None]
  /\ frame = [c \in Callers |-> IdleFrame("")]
  /\ last = NoEvent
  /\ integrations = [id \in IntegrationIds |-> None]
  /\ nodeEnv \in {"development", "production"}
  /\ retryState = RetryIdle
  /\ transformed = NotTransformed
  /\ handler = [c \in Callers |-> NoHandler]
  /\ nangoSecretKey \in {None, Some("secret")}
  /\ withRetryState = WithRetryIdle

\* Run one segment of caller c's call op on adapter a.
Apply(c, a, op, seg, request, connectionId, outcome) ==
  LET n == frame[c].ncalls + (IF IsSome(seg.call) THEN 1 ELSE 0)
      out == IF IsSome(seg.call) THEN None
             ELSE IF op = "initialize" THEN Some(initializeSettle(Val(seg.out)))
             ELSE seg.out
      after == IF op = "initialize" /\ IsSome(out) /\ ~Val(out).raised
               THEN connectionId ELSE ""
  IN /\ frame' = [frame EXCEPT ![c] =
                    IF IsSome(seg.call)
                    THEN [pc |-> seg.pc, svc |-> a, op |-> op, ncalls |-> n,
                          checks |-> seg.checks, connectionId |-> connectionId]
                    ELSE IdleFrame(after)]
     /\ last' = Event(IF IsSome(seg.call) THEN "call" ELSE "return",
                      c, a, op, frame[c].pc, outcome, seg.call, out, n, request, NoReg)

\* A caller starts a call once the previous event has been taken.
Idle(c) == last = NoEvent /\ frame[c].pc = "idle"

\* ------------------------------------------------------------------ actions
InitializeAs(c, a, cfg, connectionId) ==
  /\ Idle(c)
  /\ LET v == validateInput(SlackConfigSchema(cfg)) IN
     IF v.threw
     THEN /\ frame' = [frame EXCEPT ![c] = IdleFrame("")]
          /\ last' = Event("return", c, a, "initialize", "idle", None, None,
                           Some(initializeInvalid(v.message)), 0, Some(cfg), NoReg)
          /\ UNCHANGED config
     ELSE /\ config' = [config EXCEPT ![a] = v.value]
          /\ Apply(c, a, "initialize", testConnectionStart(v.value), Some(cfg),
                   connectionId, None)
  /\ UNCHANGED <<integrations, nodeEnv, retryState, transformed, handler, nangoSecretKey, withRetryState>>

Initialize(c, a, cfg) == InitializeAs(c, a, cfg, frame[c].connectionId)

TestConnection(c, a) ==
  /\ Idle(c)
  /\ Apply(c, a, "testConnection", testConnectionStart(config[a]), None,
           frame[c].connectionId, None)
  /\ UNCHANGED <<config, integrations, nodeEnv, retryState, transformed,
               handler, nangoSecretKey, withRetryState>>

SendMessage(c, a, request) ==
  /\ Idle(c)
  /\ Apply(c, a, "sendMessage", sendMessageStart(config[a], request), Some(request),
           frame[c].connectionId, None)
  /\ UNCHANGED <<config, integrations, nodeEnv, retryState, transformed,
               handler, nangoSecretKey, withRetryState>>

GetUserInfo(c, a, request) ==
  /\ Idle(c)
  /\ Apply(c, a, "getUserInfo", getUserInfoStart(config[a], request), Some(request),
           frame[c].connectionId, None)
  /\ UNCHANGED <<config, integrations, nodeEnv, retryState, transformed,
               handler, nangoSecretKey, withRetryState>>

GetUsers(c, a, request) ==
  /\ Idle(c)
  /\ Apply(c, a, "getUsers", getUsersStart(config[a], request), Some(request),
           frame[c].connectionId, None)
  /\ UNCHANGED <<config, integrations, nodeEnv, retryState, transformed,
               handler, nangoSecretKey, withRetryState>>

GetChannels(c, a, request) ==
  /\ Idle(c)
  /\ Apply(c, a, "getChannels", getChannelsStart(config[a], request), Some(request),
           frame[c].connectionId, None)
  /\ UNCHANGED <<config, integrations, nodeEnv, retryState, transformed,
               handler, nangoSecretKey, withRetryState>>

\* The continuation of caller c once its external call settles.
Settle(c, pc, seg, outcome) ==
  /\ last = NoEvent
  /\ frame[c].pc = pc
  /\ Apply(c, frame[c].svc, frame[c].op, seg, None, frame[c].connectionId,
           Some(outcome))
  /\ UNCHANGED <<config, integrations, nodeEnv, retryState, transformed,
               handler, nangoSecretKey, withRetryState>>

AuthSettles(c, outcome) ==
  Settle(c, "auth", testConnectionAuth(config[frame[c].svc], outcome), outcome)

PermissionsSettles(c, outcome) ==
  Settle(c, "permissions",
         testConnectionPermissions(config[frame[c].svc], frame[c].checks, outcome),
         outcome)

SendSettles(c, outcome) == Settle(c, "send", sendMessageSettle(outcome), outcome)

UserInfoSettles(c, outcome) ==
  Settle(c, "users.info", getUserInfoSettle(outcome), outcome)

UsersSettles(c, outcome) ==
  Settle(c, "users.list", getUsersSettle(outcome), outcome)

ChannelsSettles(c, outcome) ==
  Settle(c, "conversations.list", getChannelsSettle(outcome), outcome)

Register(integration) ==
  /\ last = NoEvent
  /\ LET r == register(integrations, integration) IN
       /\ integrations' = r.map
       /\ last' = RegistryEvent("register",
                        [NoReg EXCEPT !.id = integration.id,
                                      !.integration = Some(integration),
                                      !.threw = r.threw])
  /\ UNCHANGED <<config, frame, nodeEnv, retryState, transformed, handler, nangoSecretKey, withRetryState>>

Unregister(id) ==
  /\ last = NoEvent
  /\ LET r == unregister(integrations, id) IN
       /\ integrations' = r.map
       /\ last' = RegistryEvent("unregister",
                        [NoReg EXCEPT !.id = id, !.result = r.result])
  /\ UNCHANGED <<config, frame, nodeEnv, retryState, transformed, handler, nangoSecretKey, withRetryState>>

Get(id) ==
  /\ last = NoEvent
  /\ last' = RegistryEvent("get",
                   [NoReg EXCEPT !.id = id, !.found = get(integrations, id)])
  /\ UNCHANGED <<config, frame, integrations, nodeEnv, retryState, transformed,
               handler, nangoSecretKey, withRetryState>>

CreateSlackIntegration(ref) ==
  /\ last = NoEvent
  /\ ref \in NewRefs(integrations)
  /\ LET r == createSlackIntegration(integrations, ref) IN
       /\ integrations' = r.map
       /\ last' = RegistryEvent("createSlackIntegration",
                        [NoReg EXCEPT !.id = "slack",
                                      !.integration = Some([id |-> "slack", ref |-> ref]),
                                      !.threw = r.threw,
                                      !.found = r.slackService])
  /\ UNCHANGED <<config, frame, nodeEnv, retryState, transformed, handler,
                 nangoSecretKey, withRetryState>>

\* new DevHelper()
NewDevHelper(ref) ==
  /\ last = NoEvent
  /\ ref \in NewRefs(integrations)
  /\ LET r == initializeServices(integrations, nangoSecretKey, ref) IN
       /\ integrations' = r.map
       /\ last' = RegistryEvent("DevHelper",
                        [NoReg EXCEPT !.id = "slack",
                                      !.integration = Some([id |-> "slack", ref |-> ref]),
                                      !.threw = r.threw,
                                      !.found = r.slackService])
  /\ UNCHANGED <<config, frame, nodeEnv, retryState, transformed, handler,
                 nangoSecretKey, withRetryState>>

\* the call that has just returned was awaited by a POST handler
HandlerAwaits ==
  last.kind = "return" /\ last.caller \in Callers /\ handler[last.caller].pc # "idle"

\* The event is taken: the awaiting caller resumes with the value its call
\* returned (or catches what it raised), or the request reaches the provider.
Deliver ==
  /\ last # NoEvent
  /\ ~HandlerAwaits
  /\ last' = NoEvent
  /\ UNCHANGED <<config, frame, integrations, nodeEnv, retryState, transformed,
               handler, nangoSecretKey, withRetryState>>

Next ==
  \/ Deliver
  \/ \E c \in Callers, a \in Adapters, cfg \in ConfigInputs : Initialize(c, a, cfg)
  \/ \E c \in Callers, a \in Adapters : TestConnection(c, a)
  \/ \E c \in Callers, a \in Adapters, r \in SendMessageInputs : SendMessage(c, a, r)
  \/ \E c \in Callers, a \in Adapters, r \in GetUserInfoInputs : GetUserInfo(c, a, r)
  \/ \E c \in Callers, a \in Adapters, r \in GetUsersInputs : GetUsers(c, a, r)
  \/ \E c \in Callers, a \in Adapters, r \in GetChannelsInputs : GetChannels(c, a, r)
  \/ \E c \in Callers, o \in AuthOutcomes : AuthSettles(c, o)
  \/ \E c \in Callers, o \in PermissionOutcomes : PermissionsSettles(c, o)
  \/ \E c \in Callers, o \in SendOutcomes : SendSettles(c, o)
  \/ \E c \in Callers, o \in UserInfoOutcomes : UserInfoSettles(c, o)
  \/ \E c \in Callers, o \in UsersOutcomes : UsersSettles(c, o)
  \/ \E c \in Callers, o \in ChannelsOutcomes : ChannelsSettles(c, o)

Spec == Init /\ [][Next]_vars

\* The README's WorkflowEngine.executeSlackAction, run by every caller on the
\* adapter the registry hands out: initialize with the caller's own
\* connection id, then one operation.
WorkflowInitialize(c) ==
  /\ frame[c].connectionId = ""
  /\ InitializeAs(c, Shared, [nangoConnectionId |-> OwnId(c)], OwnId(c))

WorkflowSendMessage(c, r) == frame[c].connectionId # "" /\ SendMessage(c, Shared, r)

WorkflowGetUsers(c, r) == frame[c].connectionId # "" /\ GetUsers(c, Shared, r)

NextWorkflow ==
  \/ Deliver
  \/ \E c \in Callers : WorkflowInitialize(c)
  \/ \E c \in Callers, r \in SendMessageInputs : WorkflowSendMessage(c, r)
  \/ \E c \in Callers, r \in GetUsersInputs : WorkflowGetUsers(c, r)
  \/ \E c \in Callers, o \in AuthOutcomes : AuthSettles(c, o)
  \/ \E c \in Callers, o \in PermissionOutcomes : PermissionsSettles(c, o)
  \/ \E c \in Callers, o \in SendOutcomes : SendSettles(c, o)
  \/ \E c \in Callers, o \in UsersOutcomes : UsersSettles(c, o)

SpecWorkflow == Init /\ [][NextWorkflow]_vars

NextRegistry ==
  \/ Deliver
  \/ \E i \in Integrations : Register(i)
  \/ \E id \in IntegrationIds : Unregister(id)
  \/ \E id \in IntegrationIds : Get(id)
  \/ \E ref \in {1, 2} : CreateSlackIntegration(ref)
  \/ \E ref \in {1, 2} : NewDevHelper(ref)

SpecRegistry == Init /\ [][NextRegistry]_vars

\* ------------------------------------------------------------ handler actions
\* the answer of caller c's handler goes out
ResponseEvent(c, route, request, answer) ==
  Event("response", c, RequestAdapter(c), route, handler[c].pc, None, None,
        Some(answer), 0, request, NoReg)

\* an absent string field read as a string
OrEmpty(field) == IF IsSome(field) THEN Val(field) ELSE ""

\* POST, from the request to the handler's first await (or its answer)
Post(c, route, body) ==
  /\ Idle(c) /\ handler[c].pc = "idle"
  /\ LET answer == postStart(route, body, nangoSecretKey)
         a == RequestAdapter(c)
         cfg == [nangoConnectionId |-> OrEmpty(body.nangoConnectionId)]
         v == validateInput(SlackConfigSchema(cfg))
     IN IF IsSome(answer)
        THEN /\ last' = ResponseEvent(c, route, Some(body), Val(answer))
             /\ UNCHANGED <<config, frame, handler>>
        ELSE IF v.threw
        THEN /\ config' = [config EXCEPT ![a] = None]
             /\ last' = ResponseEvent(c, route, Some(body),
                                      postCatch(route, initializeInvalid(v.message).message))
             /\ UNCHANGED <<frame, handler>>
        ELSE /\ config' = [config EXCEPT ![a] = v.value]
             /\ Apply(c, a, "initialize", testConnectionStart(v.value), Some(cfg),
                      cfg.nangoConnectionId, None)
             /\ handler' = [handler EXCEPT ![c] =
                              [pc |-> "initialize", route |-> route,
                               nangoConnectionId |-> cfg.nangoConnectionId,
                               request |-> postRequest(route, body)]]
  /\ UNCHANGED <<integrations, nodeEnv, retryState, transformed, nangoSecretKey, withRetryState>>

\* POST /connect: it reads the body and answers, without an adapter
PostConnect(c, parses) ==
  /\ Idle(c) /\ handler[c].pc = "idle"
  /\ last' = ResponseEvent(c, "connect",
                           Some([parses |-> parses, nangoConnectionId |-> None,
                                 user |-> None, limit |-> None]),
                           IF parses THEN connectResult
                           ELSE connectCatch(<<"Unexpected token">>))
  /\ UNCHANGED <<config, frame, integrations, nodeEnv, retryState, transformed,
                 handler, nangoSecretKey, withRetryState>>

\* the handler once `await slackService.initialize` has settled
AfterInitialize(c) ==
  /\ last.kind = "return" /\ last.caller = c /\ handler[c].pc = "initialize"
  /\ LET h == handler[c]
         a == RequestAdapter(c)
     IN IF Val(last.out).raised
        THEN /\ last' = ResponseEvent(c, h.route, h.request,
                                      postCatch(h.route, Val(last.out).message))
             /\ handler' = [handler EXCEPT ![c] = NoHandler]
             /\ config' = [config EXCEPT ![a] = None]
             /\ UNCHANGED frame
        ELSE /\ Apply(c, a, postOperation(h.route),
                      postOperationStart(h.route, config[a], h.request), h.request,
                      frame[c].connectionId, None)
             /\ handler' = [handler EXCEPT ![c].pc = "operation"]
             /\ UNCHANGED config
  /\ UNCHANGED <<integrations, nodeEnv, retryState, transformed, nangoSecretKey, withRetryState>>

\* the handler once the awaited adapter operation has settled
AfterOperation(c) ==
  /\ last.kind = "return" /\ last.caller = c /\ handler[c].pc = "operation"
  /\ last' = ResponseEvent(c, handler[c].route, handler[c].request,
                           postResult(handler[c].route, Val(last.out)))
  /\ handler' = [handler EXCEPT ![c] = NoHandler]
  /\ config' = [config EXCEPT ![RequestAdapter(c)] = None]
  /\ frame' = [frame EXCEPT ![c] = IdleFrame("")]
  /\ UNCHANGED <<integrations, nodeEnv, retryState, transformed, nangoSecretKey, withRetryState>>

\* the outcomes whose list has at most one entry and no next page
OnePage(outcomes) ==
  { o \in outcomes :
      IsSome(o.body) =>
        LET response == Val(o.body) IN
        /\ ~IsSome(response.next_cursor)
        /\ IsSome(response.members) => Len(Val(response.members)) <= 1
        /\ IsSome(response.channels) => Len(Val(response.channels)) <= 1 }

NextRoutes ==
  \/ Deliver
  \/ \E c \in Callers, route \in Routes : \E body \in BodiesOf(c, route) :
       Post(c, route, body)
  \/ \E c \in Callers, parses \in BOOLEAN : PostConnect(c, parses)
  \/ \E c \in Callers : AfterInitialize(c)
  \/ \E c \in Callers : AfterOperation(c)
  \/ \E c \in Callers, o \in AuthOutcomes : AuthSettles(c, o)
  \/ \E c \in Callers, o \in PermissionOutcomes : PermissionsSettles(c, o)
  \/ \E c \in Callers, o \in UserInfoOutcomes : UserInfoSettles(c, o)
  \/ \E c \in Callers, o \in OnePage(UsersOutcomes) : UsersSettles(c, o)
  \/ \E c \in Callers, o \in OnePage(ChannelsOutcomes) : ChannelsSettles(c, o)

SpecRoutes == Init /\ [][NextRoutes]_vars

\* ------------------------------------------------------------ retry actions
RetryStarts(options) ==
  /\ retryState.pc \in {"idle", "returned", "thrown"}
  /\ retryState' = retryStart(options)
  /\ UNCHANGED <<config, frame, last, integrations, nodeEnv, transformed,
               handler, nangoSecretKey, withRetryState>>

FnSettles(outcome) ==
  /\ retryState.pc = "fn"
  /\ retryState' = retrySettle(retryState, outcome)
  /\ UNCHANGED <<config, frame, last, integrations, nodeEnv, transformed,
               handler, nangoSecretKey, withRetryState>>

DelayEnds ==
  /\ retryState.pc = "delay"
  /\ retryState' = retryWake(retryState)
  /\ UNCHANGED <<config, frame, last, integrations, nodeEnv, transformed,
               handler, nangoSecretKey, withRetryState>>

NextRetry ==
  \/ \E options \in RetryOptions : RetryStarts(options)
  \/ \E outcome \in FnOutcomes : FnSettles(outcome)
  \/ DelayEnds

SpecRetry == Init /\ [][NextRetry]_vars

\* -------------------------------------------------------- withRetry actions
WithRetryStarts(options) ==
  /\ withRetryState.pc \in {"idle", "returned", "thrown"}
  /\ withRetryState' = withRetryStart(options)
  /\ UNCHANGED <<config, frame, last, integrations, nodeEnv, retryState, transformed,
                 handler, nangoSecretKey>>

WithRetryFnSettles(outcome) ==
  /\ withRetryState.pc = "fn"
  /\ withRetryState' = withRetrySettle(withRetryState, outcome)
  /\ UNCHANGED <<config, frame, last, integrations, nodeEnv, retryState, transformed,
                 handler, nangoSecretKey>>

WithRetryDelayEnds ==
  /\ withRetryState.pc = "delay"
  /\ withRetryState' = withRetryWake(withRetryState)
  /\ UNCHANGED <<config, frame, last, integrations, nodeEnv, retryState, transformed,
                 handler, nangoSecretKey>>

NextWithRetry ==
  \/ \E options \in WithRetryOptions : WithRetryStarts(options)
  \/ \E outcome \in {None} \cup { Some(error) : error \in FnErrors } :
       WithRetryFnSettles(outcome)
  \/ WithRetryDelayEnds

SpecWithRetry == Init /\ [][NextWithRetry]_vars

\* ------------------------------------------------------ transformer actions
ToStandardChannel(slackChannel) ==
  /\ transformed' = [NotTransformed EXCEPT !.fn = "toStandardChannel",
                                          !.channel = Some(slackChannel),
                                          !.result = Some(toStandardChannel(slackChannel))]
  /\ UNCHANGED <<config, frame, last, integrations, nodeEnv, retryState,
               handler, nangoSecretKey, withRetryState>>

ToStandardUser(slackUser) ==
  /\ transformed' = [NotTransformed EXCEPT !.fn = "toStandardUser",
                                          !.user = Some(slackUser),
                                          !.result = Some(toStandardUser(slackUser))]
  /\ UNCHANGED <<config, frame, last, integrations, nodeEnv, retryState,
               handler, nangoSecretKey, withRetryState>>

\* toStandardUser applied to the standard user it returned
ToStandardUserAgain ==
  /\ transformed.fn = "toStandardUser" /\ ~IsSome(transformed.again)
  /\ transformed' =
       [transformed EXCEPT !.again =
          Some(toStandardUser(ReadAsSlackUser(Val(transformed.result))))]
  /\ UNCHANGED <<config, frame, last, integrations, nodeEnv, retryState,
               handler, nangoSecretKey, withRetryState>>

NextTransform ==
  \/ \E slackChannel \in SlackChannelInputs : ToStandardChannel(slackChannel)
  \/ \E slackUser \in SlackUserInputs : ToStandardUser(slackUser)
  \/ ToStandardUserAgain

SpecTransform == Init /\ [][NextTransform]_vars

\* ==================================================================== claims
Operations == {"sendMessage", "getUserInfo", "getUsers", "getChannels"}
ProxyOperations == {"getUserInfo", "getUsers", "getChannels"}

Returned(ops) == last.kind = "return" /\ last.op \in ops
Out == Val(last.out)
Envelope == Val(Out.envelope)
Health == Val(Out.health)
Rejected == IsSome(last.outcome) /\ Val(last.outcome).kind = "reject"

\* C1: every envelope an operation returns has exactly one of data and
\* error: success with data and no error, or failure with an error and no data.
C1_ExactlyOneOfDataError ==
  Returned(Operations) /\ IsSome(Out.envelope) =>
    \/ Envelope.success /\ IsSome(Envelope.data) /\ ~IsSome(Envelope.error)
    \/ ~Envelope.success /\ IsSome(Envelope.error) /\ ~IsSome(Envelope.data)

C1_Witness ==
  /\ Returned({"getUserInfo"}) /\ IsSome(Out.envelope)
  /\ ~Envelope.success /\ IsSome(Envelope.error)
  /\ Val(Envelope.error).code = RESOURCE_NOT_FOUND

\* The malformed inputs the specification names: an empty channel or user
\* id, a text of length 0 or above 4000, a limit outside [1, 1000].
Malformed(op, request) ==
  CASE op = "sendMessage" ->
         \/ StrLen(request.channel) = 0
         \/ StrLen(request.text) = 0
         \/ StrLen(request.text) > 4000
    [] op = "getUserInfo" -> StrLen(request.user) = 0
    [] op \in {"getUsers", "getChannels"} ->
         IsSome(request.limit) /\ (Val(request.limit) < 1 \/ Val(request.limit) > 1000)
    [] OTHER -> FALSE

\* C2: a malformed input makes the operation return success=false with a
\* validation-category error code, and no external call is made for it.
C2_MalformedInputRejected ==
  /\ Returned(Operations) /\ IsSome(last.request)
       /\ Malformed(last.op, Val(last.request)) =>
       /\ IsSome(Out.envelope) /\ ~Envelope.success
       /\ Val(Envelope.error).code \in ValidationCodes
       /\ last.ncalls = 0
  /\ last.kind = "call" /\ last.op \in Operations /\ IsSome(last.request) =>
       ~Malformed(last.op, Val(last.request))

\* C3: no operation lets an exception escape; when the proxy layer or the
\* send action throws, the operation returns success=false with API_ERROR.
C3_NoExceptionEscapes ==
  Returned(Operations) =>
    /\ ~Out.raised
    /\ IsSome(Out.envelope)
    /\ Rejected => ~Envelope.success /\ Val(Envelope.error).code = API_ERROR

C3_Witness ==
  /\ Returned({"getUsers"}) /\ Rejected
  /\ ~Out.raised /\ Val(Envelope.error).code = API_ERROR

\* The classification the specification gives a transport failure.
Classification(status) ==
  IF status = Some(401) THEN AUTHENTICATION_FAILED
  ELSE IF status = Some(403) THEN INSUFFICIENT_PERMISSIONS
  ELSE IF status = Some(429) THEN RATE_LIMITED
  ELSE API_ERROR

\* C4: the envelope of an operation that goes through the raw proxy call
\* carries the classification of the transport failure as its error code.
C4_EnvelopeCarriesClassification ==
  Returned(ProxyOperations) /\ Rejected =>
    /\ IsSome(Out.envelope) /\ ~Envelope.success
    /\ Val(Envelope.error).code = Classification(Val(last.outcome).status)

\* the authentication probe threw or answered not ok
ProbeFailed == ~(IsSome(Out.health) /\ Health.checks.authentication)

\* C5: initialize with a schema-valid config completes without raising only
\* when the connectivity probe succeeds; a failed probe makes it raise.
C5_InitializeFailsLoudly ==
  Returned({"initialize"})
    /\ (last.at # "idle" \/ SlackConfigSchema(Val(last.request)).ok) =>
    (Out.raised <=> ProbeFailed)

\* C6: once the adapter holds a configuration, the status testConnection
\* returns is healthy iff all three checks are true, degraded iff
\* authentication is true and another check is false, unhealthy iff
\* authentication is false.
C6_StatusDerivation ==
  Returned({"testConnection"}) /\ IsSome(config[last.svc]) /\ IsSome(Out.health) =>
    LET k == Health.checks IN
    /\ Health.status = "healthy" <=> (k.authentication /\ k.apiAccess /\ k.permissions)
    /\ Health.status = "degraded" <=>
         (k.authentication /\ ~(k.apiAccess /\ k.permissions))
    /\ Health.status = "unhealthy" <=> ~k.authentication

C6_Witness ==
  /\ Returned({"testConnection"}) /\ IsSome(config[last.svc]) /\ IsSome(Out.health)
  /\ Health.status = "degraded"

\* the awaited probe threw, or answered without ok
AnsweredNotOk ==
  /\ IsSome(last.outcome)
  /\ \/ Val(last.outcome).kind = "reject"
     \/ ~IsSome(Val(last.outcome).body)
     \/ ~Val(Val(last.outcome).body).ok

\* C7: testConnection never raises, with or without a configuration and
\* whatever the proxy does: a failing permission probe is recorded as
\* permissions=false, a failing authentication probe gives status unhealthy.
C7_TestConnectionNeverRaises ==
  Returned({"testConnection"}) =>
    /\ ~Out.raised
    /\ IsSome(Out.health)
    /\ last.at = "permissions" /\ Rejected => ~Health.checks.permissions
    /\ last.at = "auth" /\ AnsweredNotOk => Health.status = "unhealthy"

C7_Witness ==
  /\ Returned({"testConnection"}) /\ last.at = "permissions" /\ Rejected
  /\ ~Out.raised /\ ~Health.checks.permissions

\* C8: when callers each run initialize(own connection id) and then an
\* operation on the shared adapter, every external call issued for a caller
\* carries that caller's own connection id.
C8_CallCarriesOwnConnectionId ==
  last.kind = "call" =>
    Val(last.call).connectionId = frame[last.caller].connectionId

\* C9: register raises when the identifier is already registered and leaves
\* the registry as it was; otherwise it adds the adapter under its own
\* identifier, so every identifier maps to the adapter registered under it.
C9_RegisterStep ==
  last'.kind = "return" /\ last'.op = "register" =>
    LET i == Val(last'.reg.integration) IN
    IF IsSome(integrations[i.id])
    THEN last'.reg.threw /\ integrations' = integrations
    ELSE ~last'.reg.threw /\ integrations' = [integrations EXCEPT ![i.id] = Some(i)]

C9_RegisterNoOverwrite ==
  /\ [][C9_RegisterStep]_vars
  /\ [](\A id \in IntegrationIds :
          IsSome(integrations[id]) => Val(integrations[id]).id = id)

C9_Witness ==
  /\ Returned({"register"}) /\ last.reg.threw
  /\ integrations[last.reg.id] # last.reg.integration

\* C10: unregister(id) returns true iff an adapter was registered under id,
\* leaves get(id) absent, changes no other identifier's entry, and on an
\* identifier that is not registered returns false and changes nothing.
C10_UnregisterStep ==
  last'.kind = "return" /\ last'.op = "unregister" =>
    LET id == last'.reg.id IN
    /\ last'.reg.result <=> IsSome(integrations[id])
    /\ get(integrations', id) = None
    /\ \A other \in IntegrationIds \ {id} : integrations'[other] = integrations[other]
    /\ ~IsSome(integrations[id]) => ~last'.reg.result /\ integrations' = integrations

C10_UnregisterIdempotent == [][C10_UnregisterStep]_vars

C10_Witness ==
  /\ Returned({"unregister"}) /\ ~last.reg.result
  /\ \E other \in IntegrationIds : IsSome(integrations[other])

\* the body of the provider response the call resumed with
Answered ==
  /\ IsSome(last.outcome) /\ Val(last.outcome).kind = "resolve"
  /\ IsSome(Val(last.outcome).body)
Response == Val(Val(last.outcome).body)

HintedErrors ==
  {"not_in_channel", "channel_not_found", "access_denied", "account_inactive",
   "token_expired", "restricted_action"}
GenericHint ==
  "Please check the channel ID and ensure you have access to post messages."

\* C12: when the provider answers a send with ok false, sendMessage returns
\* success=false with API_ERROR, no data, and error.details.suggestions
\* populated: the hint of its own for each of the six named codes, the
\* generic hint for every other code.
C12_SendRejectionSuggestions ==
  Returned({"sendMessage"}) /\ Answered /\ ~Response.ok =>
    /\ IsSome(Out.envelope)
    /\ ~Envelope.success /\ ~IsSome(Envelope.data)
    /\ Val(Envelope.error).code = API_ERROR
    /\ IsSome(Val(Envelope.error).details)
    /\ LET suggestions == Val(Val(Envelope.error).details).suggestions IN
       /\ suggestions # ""
       /\ IF Response.error \in HintedErrors
          THEN /\ suggestions # GenericHint
               /\ \A e \in HintedErrors \ {Response.error} : suggestions # Suggestions(e)
          ELSE suggestions = GenericHint

C12_Witness ==
  /\ Returned({"sendMessage"}) /\ Answered /\ ~Response.ok
  /\ Response.error = "not_in_channel"
  /\ Val(Val(Envelope.error).details).suggestions =
       "You are not a member of this channel. Please join the channel first."

\* C13: when the provider accepts the send of an initialized adapter (ok,
\* with a timestamp ts), sendMessage returns success=true, data.messageId
\* and data.timestamp both equal to ts, and no error.
C13_SendSuccessCarriesTs ==
  Returned({"sendMessage"}) /\ Answered /\ Response.ok /\ Response.ts # "" =>
    /\ IsSome(Out.envelope)
    /\ Envelope.success /\ ~IsSome(Envelope.error)
    /\ IsSome(Envelope.data)
    /\ Val(Envelope.data).messageId = Response.ts
    /\ Val(Envelope.data).timestamp = Response.ts

C13_Witness ==
  /\ Returned({"sendMessage"}) /\ Answered /\ Response.ok
  /\ Response.ts = "1234567890.123456"
  /\ Envelope.success /\ Val(Envelope.data).messageId = "1234567890.123456"

\* C14: on a successful provider response getUsers returns one StandardUser
\* per provider member, in the provider's order, and nextCursor equal to
\* the provider's next_cursor (absent when the provider gives none);
\* getChannels does the same for channels; the request cursor reaches the
\* provider unchanged.
C14_ListAndCursorPassthrough ==
  /\ Returned({"getUsers"}) /\ Answered /\ Response.ok /\ IsSome(Response.members) =>
       LET members == Val(Response.members) IN
       /\ IsSome(Out.envelope) /\ Envelope.success /\ IsSome(Envelope.data)
       /\ Len(Val(Envelope.data).users) = Len(members)
       /\ \A i \in 1..Len(members) :
            /\ Val(Envelope.data).users[i].id = members[i].id
            /\ Val(Envelope.data).users[i] = toStandardUser(members[i])
       /\ Val(Envelope.data).nextCursor = Response.next_cursor
  /\ Returned({"getChannels"}) /\ Answered /\ Response.ok /\ IsSome(Response.channels) =>
       LET channels == Val(Response.channels) IN
       /\ IsSome(Out.envelope) /\ Envelope.success /\ IsSome(Envelope.data)
       /\ Len(Val(Envelope.data).channels) = Len(channels)
       /\ \A i \in 1..Len(channels) :
            /\ Val(Envelope.data).channels[i].id = channels[i].id
            /\ Val(Envelope.data).channels[i] = toStandardChannel(channels[i])
       /\ Val(Envelope.data).nextCursor = Response.next_cursor
  /\ last.kind = "call" /\ last.op \in {"getUsers", "getChannels"} =>
       Val(Val(last.call).data).cursor = Val(last.request).cursor

C14_Witness ==
  /\ Returned({"getUsers"}) /\ Answered /\ Response.ok /\ IsSome(Response.members)
  /\ Len(Val(Response.members)) = 2
  /\ Val(Response.members)[1].id = "U2"
  /\ Response.next_cursor = Some("abc")
  /\ Val(Envelope.data).nextCursor = Some("abc")
  /\ Val(Envelope.data).users[1].id = "U2"

\* the invocations of fn a retry call has made so far
Invocations == Len(retryState.log) + (IF retryState.pc = "fn" THEN 1 ELSE 0)
AllRejected == \A i \in 1..Len(retryState.log) : retryState.log[i] = "reject"

\* C15: with maxAttempts >= 1, retry invokes fn until its first success or
\* until maxAttempts invocations have failed: it returns the value of the
\* first success and invokes nothing after it; when every attempt fails it
\* makes exactly maxAttempts invocations and raises the error of the last.
C15_RetryUntilSuccessOrExhausted ==
  retryState.pc # "idle" /\ retryState.options.maxAttempts >= 1 =>
    LET r == retryState
        n == Len(r.log)
    IN /\ Invocations <= r.options.maxAttempts
       /\ \A i \in 1..(n - 1) : r.log[i] = "reject"
       /\ r.pc \in {"fn", "delay"} => AllRejected /\ n < r.options.maxAttempts
       /\ r.pc = "returned" => r.log[n] = "resolve" /\ r.value = Some(n)
       /\ r.pc = "thrown" =>
            AllRejected /\ n = r.options.maxAttempts /\ r.thrown = Some(n)

C15_Witness ==
  /\ retryState.pc = "returned" /\ retryState.options.maxAttempts = 3
  /\ retryState.log = <<"reject", "reject", "resolve">>
  /\ Invocations = 3

\* C16: between failed attempt k and attempt k+1 (1 <= k < maxAttempts)
\* retry sleeps exactly min(baseDelay * backoffFactor^(k-1), maxDelay); it
\* sleeps neither after a success nor after the final failed attempt, and
\* no sleep exceeds maxDelay.
C16_BackoffDelays ==
  retryState.pc # "idle" /\ retryState.options.maxAttempts >= 1 =>
    LET r == retryState
        o == r.options
    IN /\ \A k \in 1..Len(r.sleeps) :
            /\ k < o.maxAttempts /\ r.log[k] = "reject"
            /\ r.sleeps[k] = Min(o.baseDelay * Pow(o.backoffFactor, k - 1), o.maxDelay)
            /\ r.sleeps[k] <= o.maxDelay
       /\ Len(r.sleeps) =
            IF r.pc \in {"returned", "thrown"} THEN Len(r.log) - 1 ELSE Len(r.log)

C16_Witness ==
  /\ retryState.pc = "thrown" /\ retryState.options.maxAttempts = 3
  /\ retryState.options.maxDelay = 10000
  /\ retryState.sleeps = <<4000, 10000>>

\* C17: no operation retries: each invocation of sendMessage, getUserInfo,
\* getUsers or getChannels issues at most one external call, whether that
\* call succeeds, is rejected by the provider or throws; an invocation
\* returns as soon as its one call has settled.
C17_AtMostOneExternalCall ==
  /\ last.op \in Operations => last.ncalls <= 1
  /\ \A c \in Callers : frame[c].op \in Operations => frame[c].ncalls <= 1
  /\ last.op \in Operations /\ IsSome(last.outcome) =>
       last.kind = "return" /\ last.ncalls = 1

C17_Witness ==
  /\ Returned({"getUsers"}) /\ Rejected
  /\ last.ncalls = 1 /\ frame[last.caller].pc = "idle"

\* C18: toStandardChannel derives the type from the flags with the
\* precedence direct > group > private > public, for every combination of
\* is_im, is_mpim, is_group and is_private.
C18_ChannelTypePrecedence ==
  transformed.fn = "toStandardChannel" =>
    LET f == Val(transformed.channel)
        type == Val(transformed.result).type
    IN /\ f.is_im => type = "direct"
       /\ ~f.is_im /\ (f.is_group \/ f.is_mpim) => type = "group"
       /\ ~f.is_im /\ ~f.is_group /\ ~f.is_mpim /\ f.is_private => type = "private"
       /\ ~f.is_im /\ ~f.is_group /\ ~f.is_mpim /\ ~f.is_private => type = "public"

C18_Witness ==
  /\ transformed.fn = "toStandardChannel"
  /\ ~Val(transformed.channel).is_im
  /\ Val(transformed.channel).is_group /\ Val(transformed.channel).is_private
  /\ Val(transformed.result).type = "group"

\* C19 as stated: toStandardUser applied to its own output re-derives the
\* same id, the same name and the same status.
C19_UserIdempotent ==
  transformed.fn = "toStandardUser" /\ IsSome(transformed.again) =>
    /\ Val(transformed.again).id = Val(transformed.result).id
    /\ Val(transformed.again).name = Val(transformed.result).name
    /\ Val(transformed.again).status = Val(transformed.result).status

\* C19 as amended: toStandardUser applied to its own output re-derives the
\* same id and the same name; the status it re-derives is offline whatever
\* the first status was, so the status is kept exactly when the provider
\* user's presence is not active.
C19_UserIdAndNameIdempotent ==
  transformed.fn = "toStandardUser" /\ IsSome(transformed.again) =>
    /\ Val(transformed.again).id = Val(transformed.result).id
    /\ Val(transformed.again).name = Val(transformed.result).name
    /\ Val(transformed.again).status = "offline"
    /\ Val(transformed.again).status = Val(transformed.result).status
         <=> Val(transformed.user).presence # "active"

C19_Witness ==
  /\ transformed.fn = "toStandardUser" /\ IsSome(transformed.again)
  /\ Val(transformed.user).presence = "active"
  /\ Val(transformed.user).profile.display_name = "Al"
  /\ Val(transformed.result).status = "online"
  /\ Val(transformed.again).name = "Al"
  /\ Val(transformed.again).status = "offline"

\* a handler has just answered
Answer == Val(last.out)
AnswerError == Val(Answer.body.error)

\* a JSON body without a connection identifier (absent or empty)
WithoutConnectionId(body) ==
  body.parses /\ (~IsSome(body.nangoConnectionId) \/ Val(body.nangoConnectionId) = "")

\* C20: a POST handler (users, channels, user-info, health) given a body
\* without a connection identifier answers 400 with a MISSING_REQUIRED_FIELD
\* error envelope, and neither constructs, initializes nor invokes an
\* adapter: no configuration is stored, no call starts, no external call
\* is issued.
C20_Step ==
  /\ last'.kind = "response" /\ last'.at = "idle" /\ last'.op \in Routes
       /\ WithoutConnectionId(Val(last'.request)) =>
       LET answer == Val(last'.out) IN
       /\ answer.status = 400
       /\ ~answer.body.success /\ ~IsSome(answer.body.data)
       /\ Val(answer.body.error).code = MISSING_REQUIRED_FIELD
       /\ config' = config /\ frame' = frame /\ handler' = handler
  /\ last'.kind = "call" /\ last'.op = "initialize" /\ last'.at = "idle" =>
       Val(last'.request).nangoConnectionId # ""

C20_MissingConnectionId == [][C20_Step]_vars

C20_Witness ==
  /\ last.kind = "response" /\ last.at = "idle" /\ last.op = "health"
  /\ ~IsSome(Val(last.request).nangoConnectionId)
  /\ Answer.status = 400 /\ AnswerError.code = MISSING_REQUIRED_FIELD
  /\ IsSome(nangoSecretKey)
  /\ \A c \in Callers : ~IsSome(config[RequestAdapter(c)])

\* An exception reached the handler before its first await: the body did
\* not parse, the secret key could not be read, or initialize rejected the
\* connection id.
ThrewBeforeAdapter(route, body) ==
  \/ ~body.parses
  \/ /\ ~WithoutConnectionId(body)
     /\ route = "user-info" => IsSome(body.user) /\ Val(body.user) # ""
     /\ ~IsSome(nangoSecretKey) \/ Val(body.nangoConnectionId) = JsonNumber

C22_FailureIsEnvelope ==
  last.kind = "response" =>
    /\ Answer.body.success <=> Answer.status = 200
    /\ ~Answer.body.success =>
         /\ ~IsSome(Answer.body.data)
         /\ IsSome(Answer.body.error)
         /\ AnswerError.message # <<>>
         /\ AnswerError.message[1] # ""
    /\ \/ last.at = "idle" /\ ThrewBeforeAdapter(last.op, Val(last.request))
       \/ last.at = "initialize"
       => /\ Answer.status = 500
          /\ ~Answer.body.success
          /\ IsSome(Answer.body.error) /\ AnswerError.code = API_ERROR

C22_Witness ==
  /\ last.kind = "response" /\ last.op = "channels" /\ last.at = "idle"
  /\ IsSome(nangoSecretKey)
  /\ Val(last.request).nangoConnectionId = Some(JsonNumber)
  /\ Answer.status = 500 /\ AnswerError.code = API_ERROR
  /\ AnswerError.message = <<"Internal server error">>

\* an error object without a stack and without exception text in its details
NoRawDetail(error) ==
  /\ ~IsSome(error.stack)
  /\ IsSome(error.details) /\ "error" \in DOMAIN Val(error.details) =>
       ~IsSome(Val(error.details).error)

\* C23: when NODE_ENV is production, no envelope returned by the adapter
\* and no envelope answered by a handler carries a stack in its error or
\* the text of a caught exception in error.details.
C23_NoRawDetailInProduction ==
  nodeEnv = "production" =>
    /\ last.kind = "return" /\ IsSome(Out.envelope) /\ IsSome(Envelope.error) =>
         NoRawDetail(Val(Envelope.error))
    /\ last.kind = "response" /\ IsSome(Answer.body.error) =>
         NoRawDetail(AnswerError)

\* in production a handler's catch answers a request whose body did not
\* parse, and an adapter's failed envelope is answered
C23_Witness ==
  /\ nodeEnv = "production" /\ last.kind = "response"
  /\ ~Val(last.request).parses /\ Answer.status = 500
  /\ AnswerError.details = Some([error |-> None])

C23_WitnessAdapter ==
  /\ nodeEnv = "production" /\ last.kind = "response"
  /\ last.at = "operation" /\ ~Answer.body.success
  /\ IsSome(AnswerError.details) /\ ~IsSome(AnswerError.stack)

\* the step is the entry of an initialize call
InitializeEntered ==
  last.kind = "none" /\ last'.op = "initialize" /\ last'.at = "idle"
    /\ IsSome(last'.request)

ValidConfig(cfg) == IsString(cfg.nangoConnectionId) /\ StrLen(cfg.nangoConnectionId) >= 1

\* C24: the stored configuration of an adapter changes only at the entry of
\* initialize with a schema-valid config, which becomes the stored
\* configuration; an initialize with an invalid config raises and leaves the
\* stored configuration; testConnection and the four operations, whatever
\* they return, leave it.
C24_Step ==
  /\ config' # config =>
       /\ InitializeEntered
       /\ ValidConfig(Val(last'.request))
  /\ InitializeEntered =>
       IF ValidConfig(Val(last'.request))
       THEN config' = [config EXCEPT ![last'.svc] = last'.request]
       ELSE /\ config' = config
            /\ last'.kind = "return" /\ Val(last'.out).raised
  /\ last'.kind \in {"call", "return"} /\ last'.op \in Operations \cup {"testConnection"} =>
       config' = config

C24_ConfigOnlyByInitialize == [][C24_Step]_vars

\* initialize has stored a valid configuration; an invalid initialize has
\* raised over a stored configuration; an unhealthy check has left one stored
C24_Witness ==
  /\ last.kind = "call" /\ last.op = "initialize" /\ last.at = "idle"
  /\ config[Shared] = Some([nangoConnectionId |-> "c2"])
  /\ frame[last.caller].connectionId # "c2"

C24_WitnessInvalid ==
  /\ last.kind = "return" /\ last.op = "initialize" /\ Val(last.out).raised
  /\ IsSome(config[Shared])

C24_WitnessUnhealthy ==
  /\ last.kind = "return" /\ last.op = "testConnection"
  /\ Health.status = "unhealthy" /\ IsSome(config[Shared])

\* the adapter methods a POST handler invokes after initialize
RouteOperations == { postOperation(route) : route \in Routes }

\* C25: every external call issued while a POST handler runs carries the
\* connection id of that handler's own request, whatever the other requests
\* in flight, and the handler enters the adapter operation only from the
\* return of its own adapter's initialize.
C25_Step ==
  /\ last'.kind = "call" =>
       /\ handler'[last'.caller].pc \in {"initialize", "operation"}
       /\ Val(last'.call).connectionId = handler'[last'.caller].nangoConnectionId
       /\ last'.op # "initialize" => handler'[last'.caller].pc = "operation"
  /\ \A c \in Callers :
       handler[c].pc = "initialize" /\ handler'[c].pc = "operation" =>
         /\ last.kind = "return" /\ last.caller = c /\ last.op = "initialize"
         /\ ~Val(last.out).raised
         /\ last'.caller = c /\ last'.op \in RouteOperations /\ last'.at = "idle"

C25_OwnConnectionId == [][C25_Step]_vars

\* a request's operation issues its call while another request, with
\* another connection id, is between its initialize and its answer
C25_Witness ==
  /\ last.kind = "call" /\ last.caller = 1 /\ last.op = "getUsers"
  /\ Val(last.call).connectionId = OwnId(1)
  /\ handler[2].pc \in {"initialize", "operation"}
  /\ handler[2].nangoConnectionId = OwnId(2)
  /\ config[RequestAdapter(2)] = Some([nangoConnectionId |-> OwnId(2)])

\* the request of the returned operation passes the operation's schema
ValidRequest ==
  LET request == Val(last.request) IN
  CASE last.op = "sendMessage" -> SendMessageSchema(request).ok
    [] last.op = "getUserInfo" -> GetUserInfoSchema(request).ok
    [] last.op = "getUsers" -> GetUsersSchema(request).ok
    [] last.op = "getChannels" -> GetChannelsSchema(request).ok
    [] OTHER -> FALSE

\* C26: while an adapter has not stored a configuration, none of its
\* methods issues an external request; each of the four operations, given a
\* valid request, returns success=false with API_ERROR and the message
\* 'Integration not initialized', and testConnection returns unhealthy with
\* its three checks false.
C26_NotInitialized ==
  last.kind \in {"call", "return"} /\ last.op \in Operations \cup {"testConnection", "initialize"}
    /\ ~IsSome(config[last.svc]) =>
      /\ last.kind = "return" /\ last.ncalls = 0
      /\ last.op \in Operations /\ ValidRequest =>
           /\ ~Envelope.success /\ ~IsSome(Envelope.data)
           /\ Val(Envelope.error).code = API_ERROR
           /\ Val(Envelope.error).message[Len(Val(Envelope.error).message)]
                = "Integration not initialized"
      /\ last.op = "testConnection" =>
           /\ Health.status = "unhealthy"
           /\ Health.checks = NoChecks

C26_Witness ==
  /\ Returned({"getChannels"}) /\ ~IsSome(config[last.svc]) /\ ValidRequest
  /\ Val(Envelope.error).message = <<"Failed to fetch channels", "Integration not initialized">>

C26_WitnessHealth ==
  /\ Returned({"testConnection"}) /\ ~IsSome(config[last.svc])
  /\ Health.status = "unhealthy"

\* the '/auth.test' probe returned a response whose ok flag is set
AuthProbeOk(outcome) ==
  outcome.kind = "resolve" /\ IsSome(outcome.body) /\ Val(outcome.body).ok

Checks(authentication, apiAccess, permissions) ==
  [authentication |-> authentication, apiAccess |-> apiAccess, permissions |-> permissions]

\* C27: testConnection's checks follow from the two probes alone. When the
\* authentication probe settles: if it returned ok, authentication and
\* apiAccess are set and the channel-list probe is issued, otherwise the
\* health check returns with the three checks false. When the channel-list
\* probe settles, permissions is set exactly when the proxy call did not
\* throw, whatever the response's ok flag. The returned triple is one of
\* (false,false,false), (true,true,false), (true,true,true).
C27_Step ==
  last'.op = "testConnection" /\ last'.kind \in {"call", "return"} =>
    /\ last'.at = "auth" =>
         IF AuthProbeOk(Val(last'.outcome))
         THEN /\ last'.kind = "call"
              /\ Val(last'.call).endpoint = "/conversations.list"
              /\ frame'[last'.caller].checks = Checks(TRUE, TRUE, FALSE)
         ELSE /\ last'.kind = "return"
              /\ Val(Val(last'.out).health).checks = Checks(FALSE, FALSE, FALSE)
    /\ last'.at = "permissions" =>
         /\ last'.kind = "return"
         /\ Val(Val(last'.out).health).checks =
              Checks(TRUE, TRUE, Val(last'.outcome).kind = "resolve")
    /\ last'.kind = "return" =>
         Val(Val(last'.out).health).checks \in
           {Checks(FALSE, FALSE, FALSE), Checks(TRUE, TRUE, FALSE), Checks(TRUE, TRUE, TRUE)}

C27_ChecksFromProbes == [][C27_Step]_vars

\* the channel-list probe returned a response with ok false and
\* permissions is set
C27_Witness ==
  /\ Returned({"testConnection"}) /\ last.at = "permissions"
  /\ Val(last.outcome).kind = "resolve" /\ IsSome(Val(last.outcome).body)
  /\ ~Val(Val(last.outcome).body).ok
  /\ Health.checks = Checks(TRUE, TRUE, TRUE)

C27_WitnessDegraded ==
  /\ Returned({"testConnection"}) /\ last.at = "permissions"
  /\ Val(last.outcome).kind = "reject"
  /\ Health.checks = Checks(TRUE, TRUE, FALSE)

\* the locals withRetry shares with retry, and its options without shouldRetry
AsRetry(r) ==
  [pc |-> r.pc,
   options |-> [maxAttempts |-> r.options.maxAttempts, baseDelay |-> r.options.baseDelay,
                maxDelay |-> r.options.maxDelay,
                backoffFactor |-> r.options.backoffFactor],
   attempt |-> r.attempt, lastError |-> r.lastError, log |-> r.log, sleeps |-> r.sleeps,
   thrown |-> r.thrown, value |-> r.value]

RECURSIVE RetryFed(_, _)
\* IntegrationUtils.retry after fn has settled as log says, each delay but
\* the last one over
RetryFed(options, log) ==
  IF log = <<>> THEN retryStart(options)
  ELSE LET before == RetryFed(options, SubSeq(log, 1, Len(log) - 1))
           ready == IF before.pc = "delay" THEN retryWake(before) ELSE before
       IN IF ready.pc = "fn" THEN retrySettle(ready, log[Len(log)]) ELSE ready

\* IntegrationUtils.retry at the point withRetry r has reached
RetryAt(r) ==
  LET fed == RetryFed(AsRetry(r).options, r.log) IN
  IF r.pc = "fn" /\ fed.pc = "delay" THEN retryWake(fed) ELSE fed

\* the errors a shouldRetry option is meant to accept
Accepts(option, error) ==
  CASE option = "always" -> TRUE
    [] option = "never" -> FALSE
    [] option = "rateLimited" -> error.code = Some(RATE_LIMITED)
    [] OTHER -> error.code \in {Some(RATE_LIMITED), Some(SERVICE_UNAVAILABLE),
                                Some(API_ERROR)}

\* withRetry under the shouldRetry options `options`: it is at the point
\* retry has reached when every error is accepted; it sleeps after a failed
\* attempt that is not the last exactly when shouldRetry accepts the error,
\* and otherwise raises that error without a sleep or another invocation.
WithRetryUnder(options) ==
  LET r == withRetryState
      error == r.errors[Len(r.errors)]
  IN r.pc # "idle" /\ r.options.shouldRetry \in options =>
       /\ r.options.shouldRetry = "always" => AsRetry(r) = RetryAt(r)
       /\ r.pc = "delay" =>
            /\ Accepts(r.options.shouldRetry, error)
            /\ Len(r.sleeps) = r.attempt /\ Len(r.log) = r.attempt
       /\ r.pc = "thrown" /\ r.log # <<>> /\ r.attempt < r.options.maxAttempts =>
            /\ ~Accepts(r.options.shouldRetry, error)
            /\ ~r.typeError /\ r.thrown = Some(r.attempt)
            /\ Len(r.sleeps) = r.attempt - 1 /\ Len(r.log) = r.attempt

\* C28: withRetry runs as retry does (same invocations, sleeps, value or
\* error) when shouldRetry accepts every error; when shouldRetry rejects an
\* error it raises that error with no sleep and no further invocation; with
\* the default shouldRetry the errors retried are those whose code is
\* RATE_LIMITED, SERVICE_UNAVAILABLE or API_ERROR.
C28_WithRetry == WithRetryUnder(ShouldRetryOptions)

\* the same with a shouldRetry function passed by the caller
C28_WithRetryPassed == WithRetryUnder(ShouldRetryOptions \ {"default"})

\* withRetry with the default shouldRetry raised a TypeError after the first
\* invocation rejected with RATE_LIMITED
C28_TypeError ==
  /\ withRetryState.options.shouldRetry = "default"
  /\ withRetryState.options.maxAttempts = 3
  /\ withRetryState.pc = "thrown" /\ withRetryState.typeError
  /\ withRetryState.errors = <<[code |-> Some(RATE_LIMITED)]>>
  /\ withRetryState.sleeps = <<>>

\* withRetry accepting every error has slept twice and raised the last error
C28_WitnessPassed ==
  /\ withRetryState.options.shouldRetry = "always"
  /\ withRetryState.pc = "thrown" /\ withRetryState.thrown = Some(3)
  /\ Len(withRetryState.sleeps) = 2

\* the step is a call of createSlackIntegration, directly or from the
\* constructor of DevHelper with the secret key set
CreatesSlackIntegration ==
  /\ last.kind = "none" /\ last'.kind = "return"
  /\ \/ last'.op = "createSlackIntegration"
     \/ last'.op = "DevHelper" /\ IsSome(nangoSecretKey)

\* C29: createSlackIntegration registers the adapter it creates under
\* 'slack'; while 'slack' is registered (no unregister since), another call
\* raises and the registry keeps the adapter it held, and so does the
\* construction of a DevHelper with the secret key set.
C29_Step ==
  CreatesSlackIntegration =>
    IF IsSome(integrations["slack"])
    THEN /\ last'.reg.threw
         /\ integrations' = integrations
         /\ integrations'["slack"] # last'.reg.integration
    ELSE /\ ~last'.reg.threw
         /\ integrations' = [integrations EXCEPT !["slack"] = last'.reg.integration]
         /\ last'.reg.found = last'.reg.integration

C29_CreateRegistersOnce == [][C29_Step]_vars

\* a second DevHelper is constructed and fails while the adapter of the
\* first is registered
C29_Witness ==
  /\ last.kind = "return" /\ last.op = "DevHelper" /\ last.reg.threw
  /\ IsSome(nangoSecretKey)
  /\ IsSome(integrations["slack"])
  /\ integrations["slack"] # last.reg.integration

C30_WitnessInvalid ==
  /\ Returned({"sendMessage"}) /\ last.at = "idle" /\ IsSome(config[last.svc])
  /\ Val(last.request).thread_ts = Some(JsonNumber)
  /\ ~Envelope.success

====
